---- MODULE Spec2Model ----
(***************************************************************************)
(* A model of the two cores of IPython.parallel:                           *)
(*   - the launcher framework of IPython/parallel/apps/launcher.py         *)
(*     (BaseLauncher, LocalProcessLauncher, LocalEngineSetLauncher,        *)
(*     WindowsHPCLauncher, BatchSystemLauncher), specification SpecLauncher*)
(*   - the engine kernel of IPython/parallel/engine/streamkernel.py,       *)
(*     specification SpecKernel                                            *)
(*   - BatchSystemLauncher.write_batch_script, specification SpecBatch     *)
(* Every callback of the event loop runs to completion, so one action is   *)
(* one call of a public method or one callback of the loop.                *)
(***************************************************************************)
EXTENDS Integers, Sequences, FiniteSets, TLC

(***************************************************************************)
(* Bounds of the model.                                                    *)
(***************************************************************************)
MaxN == 2
MaxCallbacks == 2
MaxKillers == 1
MaxJobs == 2
MaxMsgs == 3

VARIABLES
    variant,         \* class of launcher 0: "local", "batch", "winhpc", "set"
    state,           \* BaseLauncher.state of every launcher object
    start_data,      \* BaseLauncher.start_data
    stop_data,       \* BaseLauncher.stop_data
    stop_callbacks,  \* BaseLauncher.stop_callbacks, a list per launcher
    process,         \* the child OS process of a LocalProcessLauncher
    poller,          \* LocalProcessLauncher.poller is running
    handlers,        \* the fds of the launcher registered with the loop
    killers,         \* DelayedCallbacks of interrupt_then_kill not yet fired:
                     \* the state of the launcher when each was scheduled
    job_id,          \* job_id of a batch or WinHPC launcher, 0: attribute unset
    njobs,           \* jobs the scheduler has accepted so far
    launchers,       \* LocalEngineSetLauncher.launchers: index -> child
    nobj,            \* child launchers the set has constructed so far
    ncb,             \* callbacks the user has passed to on_stop so far
    cb_log,          \* every call of a user's stop callback, in order
    notice_calls,    \* calls of _notice_engine_stopped by each child
    err              \* the exception the last operation ended with, or "none"

VARIABLES
    shell_q,         \* frames waiting on the socket of each shell stream
    control_q,       \* frames waiting on the socket of the control stream
    aborted,         \* Kernel.aborted
    user_ns,         \* Kernel.user_ns
    exec_lines,      \* Kernel.exec_lines
    exit_pending,    \* the DelayedCallback of shutdown_request is scheduled
    exited,          \* sys.exit(0) has run
    nmsg,            \* requests that have arrived so far
    arrived,         \* the requests that have arrived, in order
    sent,            \* every message passed to session.send, in order
    invoked,         \* every call of a handler of the tables, in order
    apply_log,       \* user_ns before and after every apply_request
    last_dispatch,   \* what the last dispatch_queue found at its abort check
    kerr,            \* the exception that escaped the last loop callback
    int_id,          \* Kernel.int_id
    prefix           \* Kernel.prefix

kvars == <<shell_q, control_q, aborted, user_ns, exec_lines, exit_pending,
           exited, nmsg, arrived, sent, invoked, apply_log, last_dispatch, kerr,
           int_id, prefix>>

VARIABLES
    flavor,               \* class of a batch launcher: "pbs" or "sge"
    queue,                \* BatchSystemLauncher.queue
    batch_template_file,  \* BatchSystemLauncher.batch_template_file
    batch_template,       \* BatchSystemLauncher.batch_template
    context,              \* BatchSystemLauncher.context
    batch_file,           \* the content of the file batch_file
    writes,               \* the last two calls of write_batch_script
    ninject               \* template lines injected so far: job array, queue

bvars == <<flavor, queue, batch_template_file, batch_template, context,
           batch_file, writes, ninject>>

VARIABLES
    engines,         \* SSHEngineSetLauncher.engines
    cargs,           \* the argument list trait of every launcher object:
                     \* controller_args, engine_args, program_args, extra_args
    ssh,             \* hostname, user and location of every SSHLauncher
    spawned          \* the argument list of every child that was started

avars == <<engines, cargs, ssh, spawned>>

lvars == <<variant, state, start_data, stop_data, stop_callbacks, process,
           poller, handlers, killers, job_id, njobs, launchers, nobj, ncb,
           cb_log, notice_calls, err, bvars, avars>>

vars == <<lvars, kvars>>

(***************************************************************************)
(* Launcher objects.  0 is the launcher under test; 1..MaxChildren are the *)
(* objects a LocalEngineSetLauncher constructs in start, in that order.    *)
(***************************************************************************)
MaxChildren == MaxN
Launcher == 0 .. MaxChildren
Children == 1 .. MaxChildren
Idx == 0 .. (MaxN - 1)
Variants == {"local", "batch", "winhpc", "set"}

(* The opaque values of start_data and stop_data. *)
None == [tag |-> "None"]
PidData(p) == [tag |-> "pid", pid |-> p]
ExitData(code, p) == [tag |-> "exit", exit_code |-> code, pid |-> p]
JobData(j) == [tag |-> "job", job_id |-> j]
JobStop(j, out) == [tag |-> "jobstop", job_id |-> j, output |-> out]
ListData(s) == [tag |-> "list", items |-> s]
DictData(m) == [tag |-> "dict", m |-> m]

(* Popen.pid of the process launcher l spawns: distinct per launcher. *)
PidOf(l) == l + 1

(* Popen.poll(): None while the process lives, else its exit status. *)
ExitCode(p) == IF p = "killed" THEN 0 - 9 ELSE 0

Range(q) == {q[i] : i \in DOMAIN q}
Max(S) == CHOOSE x \in S : \A y \in S : y <= x

(* The launcher fields as one value, passed through the nested calls. *)
World ==
    [state |-> state, start_data |-> start_data, stop_data |-> stop_data,
     stop_callbacks |-> stop_callbacks, process |-> process, poller |-> poller,
     handlers |-> handlers, killers |-> killers, job_id |-> job_id,
     njobs |-> njobs, launchers |-> launchers, nobj |-> nobj, ncb |-> ncb,
     cb_log |-> cb_log, notice_calls |-> notice_calls, err |-> "none",
     flavor |-> flavor, queue |-> queue,
     batch_template_file |-> batch_template_file,
     batch_template |-> batch_template, context |-> context,
     batch_file |-> batch_file, writes |-> writes, ninject |-> ninject,
     cargs |-> cargs, ssh |-> ssh, spawned |-> spawned]

Commit(w) ==
    /\ state' = w.state
    /\ start_data' = w.start_data
    /\ stop_data' = w.stop_data
    /\ stop_callbacks' = w.stop_callbacks
    /\ process' = w.process
    /\ poller' = w.poller
    /\ handlers' = w.handlers
    /\ killers' = w.killers
    /\ job_id' = w.job_id
    /\ njobs' = w.njobs
    /\ launchers' = w.launchers
    /\ nobj' = w.nobj
    /\ ncb' = w.ncb
    /\ cb_log' = w.cb_log
    /\ notice_calls' = w.notice_calls
    /\ err' = w.err
    /\ batch_template' = w.batch_template
    /\ context' = w.context
    /\ batch_file' = w.batch_file
    /\ writes' = w.writes
    /\ ninject' = w.ninject
    /\ cargs' = w.cargs
    /\ ssh' = w.ssh
    /\ spawned' = w.spawned
    /\ UNCHANGED <<variant, flavor, queue, batch_template_file, engines, kvars>>

Raise(w, e) == [w EXCEPT !.err = e]

(***************************************************************************)
(* BaseLauncher                                                            *)
(***************************************************************************)
\* A stop callback is 0 for LocalEngineSetLauncher._notice_engine_stopped
\* and k > 0 for the k-th function the user passed to on_stop.
NoticeCb == 0

\* f(data) for a user function: recorded with the launcher's stop_data at
\* the time of the call.
CallUser(w, l, cb, data, inline) ==
    [w EXCEPT !.cb_log = Append(@, [l |-> l, cb |-> cb, data |-> data,
                                    sd |-> w.stop_data[l],
                                    inline |-> inline])]

notify_start(w, l, data) ==
    [w EXCEPT !.start_data[l] = data, !.state[l] = "running"]

RECURSIVE notify_stop(_, _, _), DrainCallbacks(_, _, _, _), CallBack(_, _, _, _, _)

\* LocalEngineSetLauncher._notice_engine_stopped, the callback of every
\* child of launcher 0.  The loop over launchers.items() leaves idx at the
\* last key when no child has the pid, and unbound when the dict is empty.
notice_engine_stopped(w, data) ==
    LET pid == data.pid
        found == {i \in DOMAIN w.launchers : PidOf(w.launchers[i]) = pid}
    IN  IF DOMAIN w.launchers = {}
        THEN Raise(w, "UnboundLocalError")
        ELSE LET idx == IF found # {} THEN Max(found)
                        ELSE Max(DOMAIN w.launchers)
                 rest == [i \in (DOMAIN w.launchers) \ {idx} |-> w.launchers[i]]
                 sd == DictData((idx :> data) @@ w.stop_data[0].m)
                 w1 == [w EXCEPT !.launchers = rest, !.stop_data[0] = sd]
             IN  IF DOMAIN rest = {}
                 THEN notify_stop(w1, 0, w1.stop_data[0])
                 ELSE w1

CallBack(w, l, cb, data, inline) ==
    IF cb = NoticeCb
    THEN notice_engine_stopped([w EXCEPT !.notice_calls[l] = @ + 1], data)
    ELSE CallUser(w, l, cb, data, inline)

\* The loop of notify_stop: n times, pop() the last callback and call it.
\* An exception of a callback ends the loop.
DrainCallbacks(w, l, data, n) ==
    IF n = 0 \/ w.err # "none"
    THEN w
    ELSE LET cbs == w.stop_callbacks[l]
             d == cbs[Len(cbs)]
             w1 == [w EXCEPT !.stop_callbacks[l] = SubSeq(cbs, 1, Len(cbs) - 1)]
         IN  DrainCallbacks(CallBack(w1, l, d, data, FALSE), l, data, n - 1)

notify_stop(w, l, data) ==
    LET w1 == [w EXCEPT !.stop_data[l] = data, !.state[l] = "after"]
    IN  DrainCallbacks(w1, l, data, Len(w1.stop_callbacks[l]))

\* on_stop that also enqueues the callback it has just called
on_stop_enqueues(w, l, f) ==
    IF w.state[l] = "after"
    THEN [CallBack(w, l, f, w.stop_data[l], TRUE)
             EXCEPT !.stop_callbacks[l] = Append(@, f)]
    ELSE [w EXCEPT !.stop_callbacks[l] = Append(@, f)]

on_stop(w, l, f) ==
    IF w.state[l] = "after"
    THEN CallBack(w, l, f, w.stop_data[l], TRUE)
    ELSE [w EXCEPT !.stop_callbacks[l] = Append(@, f)]

(***************************************************************************)
(* LocalProcessLauncher                                                    *)
(***************************************************************************)
LocalStart(w, l) ==
    IF w.state[l] = "before"
    THEN notify_start([w EXCEPT !.process[l] = "alive",
                                !.handlers[l] = {"stdout", "stderr"},
                                !.poller[l] = TRUE],
                      l, PidData(PidOf(l)))
    ELSE Raise(w, "ProcessStateError")

\* Popen.send_signal on the child (on Windows the tree-kill, for any
\* signal but SIGINT).  SIGKILL ends a living child; SIGINT is delivered to
\* it, and the child ends when it chooses to (ProcessExits) or never.
Alive == {"alive", "interrupted"}

\* a send_signal whose SIGKILL the child may ignore like an interrupt
send_signal_gentle(w, l, sig) ==
    IF w.process[l] \notin Alive THEN w
    ELSE [w EXCEPT !.process[l] = "interrupted"]

send_signal(w, l, sig) ==
    IF w.process[l] \notin Alive THEN w
    ELSE IF sig = "SIGKILL" THEN [w EXCEPT !.process[l] = "killed"]
    ELSE [w EXCEPT !.process[l] = "interrupted"]

\* a signal that also records the stop when it sends SIGKILL
LocalSignal_records_stop(w, l, sig) ==
    IF sig = "SIGKILL"
    THEN notify_stop(send_signal(w, l, sig), l, ExitData(0 - 9, PidOf(l)))
    ELSE IF w.state[l] = "running" THEN send_signal(w, l, sig) ELSE w

LocalSignal(w, l, sig) ==
    IF w.state[l] = "running" THEN send_signal(w, l, sig) ELSE w

\* self.signal(SIGINT) inside the try of interrupt_then_kill: send_signal
\* delivers, or raises (Popen.send_signal refuses the signal, os.kill fails)
TrySignal(w, l, sig, raises) ==
    IF w.state[l] = "running" /\ raises
    THEN Raise(w, "OSError")
    ELSE LocalSignal(w, l, sig)

\* an interrupt_then_kill that lets the exception of the interrupt out
LocalInterruptThenKill_unguarded(w, l, raises) ==
    LET w1 == TrySignal(w, l, "SIGINT", raises)
    IN  IF w1.err # "none" THEN w1
        ELSE [w1 EXCEPT !.killers[l] = Append(@, w.state[l])]

LocalInterruptThenKill(w, l, raises) ==
    LET w1 == [TrySignal(w, l, "SIGINT", raises) EXCEPT !.err = w.err]
    IN  [w1 EXCEPT !.killers[l] = Append(@, w.state[l])]

LocalStop(w, l, raises) == LocalInterruptThenKill(w, l, raises)

\* a poll that leaves the poller and the two handlers installed
LocalPoll_keeps_watching(w, l) ==
    IF w.process[l] \in Alive \cup {"None"}
    THEN w
    ELSE notify_stop(w, l, ExitData(ExitCode(w.process[l]), PidOf(l)))

LocalPoll(w, l) ==
    IF w.process[l] \in Alive \cup {"None"}
    THEN w
    ELSE notify_stop([w EXCEPT !.poller[l] = FALSE, !.handlers[l] = {}],
                     l, ExitData(ExitCode(w.process[l]), PidOf(l)))

\* handle_stdout / handle_stderr: a line is logged; an empty read polls.
LocalHandleRead(w, l, line) ==
    IF line THEN w ELSE LocalPoll(w, l)

(***************************************************************************)
(* LocalEngineSetLauncher                                                  *)
(***************************************************************************)
RECURSIVE SetStartLoop(_, _, _)
\* the body of the for loop of start, for i, i+1, ..., n-1
SetStartLoop(w, i, n) ==
    IF i >= n \/ w.err # "none"
    THEN w
    ELSE LET el == w.nobj + 1
             w1 == [w EXCEPT !.nobj = el]
             w2 == on_stop(w1, el, NoticeCb)
             w3 == LocalStart(w2, el)
             w4 == [w3 EXCEPT !.launchers = (i :> el) @@ @]
         IN  SetStartLoop(w4, i + 1, n)

SetStart(w, n) ==
    LET w1 == SetStartLoop(w, 0, n)
    IN  IF w1.err # "none" THEN w1
        ELSE notify_start(w1, 0, ListData([i \in 1 .. n |-> None]))

RECURSIVE SetSignalLoop(_, _, _), SetKillLoop(_, _, _)
SetSignalLoop(w, todo, sig) ==
    IF todo = {} THEN w
    ELSE LET i == CHOOSE x \in todo : TRUE
         IN  SetSignalLoop(LocalSignal(w, w.launchers[i], sig),
                           todo \ {i}, sig)

SetSignal(w, sig) ==
    SetSignalLoop(w, DOMAIN w.launchers, sig)

\* R: the children whose interrupt raises
SetKillLoop(w, todo, R) ==
    IF todo = {} THEN w
    ELSE LET i == CHOOSE x \in todo : TRUE
         IN  SetKillLoop(LocalInterruptThenKill(w, w.launchers[i], i \in R),
                         todo \ {i}, R)

SetInterruptThenKill(w, R) ==
    SetKillLoop(w, DOMAIN w.launchers, R)

SetStop(w, R) == SetInterruptThenKill(w, R)

(***************************************************************************)
(* WindowsHPCLauncher and BatchSystemLauncher: the scheduler answers the   *)
(* submit command with out: "id" (the output holds a job id), "nomatch"    *)
(* (job_id_regexp finds nothing in it) or "fail" (check_output raises).    *)
(***************************************************************************)
(***************************************************************************)
(* Batch scripts.  A string is the sequence of its words (runs of \w       *)
(* characters) and of its other characters, one by one.                    *)
(***************************************************************************)
NonWord == {"#", "$", " ", "-", "\n", "{", "}", "!", "/", "="}
IsWord(tok) == tok \notin NonWord

\* s[a..b] matches \W+
RunW(s, a, b) == a <= b /\ \A p \in a .. b : ~IsWord(s[p])

\* the literal a directive of the flavor begins with: #PBS or #$
Directive(fl) == IF fl = "pbs" THEN <<"#", "PBS">> ELSE <<"#", "$">>

\* the literal, \W+, -, a word among flags: the ends j of the \W+ of a
\* match that begins at i
DirectiveFlag(fl, s, i, flags) ==
    IF i + 1 <= Len(s) /\ s[i] = Directive(fl)[1] /\ s[i + 1] = Directive(fl)[2]
    THEN {j \in (i + 2) .. (Len(s) - 2) :
            /\ s[j + 1] = "-"
            /\ s[j + 2] \in flags
            /\ RunW(s, i + 2, j)}
    ELSE {}

\* the words of the scripts that begin with the letter t
BeginWithT == {"t", "tc"}

\* re.compile(job_array_regexp).search(s):
\* PBS  #PBS\W+-t\W+[\w\d\-\$]+        SGE  #\$\W+\-t
job_array_search(fl, s) ==
    \E i \in 1 .. Len(s) :
        IF fl = "pbs"
        THEN \E j \in DirectiveFlag(fl, s, i, {"t"}) :
            \E k \in (j + 3) .. (Len(s) - 1) :
                /\ RunW(s, j + 3, k)
                /\ (IsWord(s[k + 1]) \/ s[k + 1] \in {"-", "$"})
        ELSE DirectiveFlag(fl, s, i, BeginWithT) # {}

\* re.compile(queue_regexp).search(s):
\* PBS  #PBS\W+-q\W+\$?\w+             SGE  #\$\W+-q\W+\$?\w+
queue_search(fl, s) ==
    \E i \in 1 .. Len(s) : \E j \in DirectiveFlag(fl, s, i, {"q"}) :
        \E k \in (j + 3) .. (Len(s) - 1) :
            /\ RunW(s, j + 3, k)
            /\ IsWord(s[k + 1])

job_array_template(fl) == Directive(fl) \o <<" ", "-", "t", " ", "1", "-", "{", "n", "}">>
queue_template(fl) == Directive(fl) \o <<" ", "-", "q", " ", "{", "queue", "}">>

\* default_template of PBSEngineSetLauncher and SGEEngineSetLauncher
default_template(fl) ==
    IF fl = "pbs"
    THEN <<"#", "!", "/", "bin", "/", "sh", "\n">>
         \o Directive(fl) \o <<" ", "-", "V", "\n">>
         \o Directive(fl) \o <<" ", "-", "N", " ", "ipengine", "\n">>
         \o <<"cmd", " ", "profile_dir", "=", "{", "profile_dir", "}", "\n">>
    ELSE Directive(fl) \o <<" ", "-", "V", "\n">>
         \o Directive(fl) \o <<" ", "-", "S", " ", "/", "bin", "/", "sh", "\n">>
         \o Directive(fl) \o <<" ", "-", "N", " ", "ipengine", "\n">>
         \o <<"cmd", " ", "profile_dir", "=", "{", "profile_dir", "}", "\n">>

\* the content of the file batch_template_file names
FileContent(name) ==
    <<"#", "!", "/", "bin", "/", "sh", "\n", "cmd", " ", "{", "n", "}", "\n">>

HasNewline(s) == \E i \in 1 .. Len(s) : s[i] = "\n"
FirstNewline(s) == CHOOSE i \in 1 .. Len(s) :
                       s[i] = "\n" /\ \A p \in 1 .. (i - 1) : s[p] # "\n"

\* firstline, rest = s.split('\n', 1); '\n'.join([firstline, line, rest])
InsertAfterFirstLine(s, line) ==
    SubSeq(s, 1, FirstNewline(s)) \o line \o <<"\n">>
    \o SubSeq(s, FirstNewline(s) + 1, Len(s))

\* the names between braces in s
RECURSIVE Fields(_)
Fields(s) ==
    IF Len(s) < 3 THEN {}
    ELSE IF s[1] = "{" /\ s[3] = "}"
         THEN {s[2]} \cup Fields(SubSeq(s, 4, Len(s)))
         ELSE Fields(Tail(s))

\* formatter.format(s, **ctx)
RECURSIVE format(_, _)
format(s, ctx) ==
    IF s = <<>> THEN <<>>
    ELSE IF Len(s) >= 3 /\ s[1] = "{" /\ s[3] = "}"
         THEN ctx[s[2]] \o format(SubSeq(s, 4, Len(s)), ctx)
         ELSE <<s[1]>> \o format(Tail(s), ctx)

SetKey(ctx, key, value) ==
    [f \in DOMAIN ctx \cup {key} |-> IF f = key THEN value ELSE ctx[f]]

\* the characters of a queue name and of n
QueueValue(q) == IF q = "" THEN <<>> ELSE <<q>>

LastTwo(q) == IF Len(q) > 2 THEN Tail(q) ELSE q

write_batch_script(w, n) ==
    LET fl == w.flavor
        ctx == SetKey(SetKey(w.context, "n", <<ToString(n)>>),
                      "queue", QueueValue(w.queue))
        t1 == IF w.batch_template_file # "" /\ w.batch_template = <<>>
              THEN FileContent(w.batch_template_file)
              ELSE w.batch_template
        t2 == IF t1 = <<>> THEN default_template(fl) ELSE t1
        addj == ~job_array_search(fl, t2)
        t3 == IF addj /\ HasNewline(t2)
              THEN InsertAfterFirstLine(t2, job_array_template(fl))
              ELSE t2
        addq == w.queue # "" /\ ~queue_search(fl, t3)
        t4 == IF addq /\ HasNewline(t3)
              THEN InsertAfterFirstLine(t3, queue_template(fl))
              ELSE t3
        call == [n |-> n, queue |-> w.queue, context |-> ctx,
                 matched |-> <<job_array_search(fl, t2), queue_search(fl, t3)>>,
                 added |-> <<addj, addq>>]
        w1 == [w EXCEPT !.context = ctx]
    IN IF addj /\ ~HasNewline(t2)
       THEN Raise([w1 EXCEPT !.batch_template = t2,
                             !.writes = LastTwo(Append(@, call))],
                  "ValueError")
       ELSE IF addq /\ ~HasNewline(t3)
       THEN Raise([w1 EXCEPT !.batch_template = t3,
                             !.writes = LastTwo(Append(@, call)),
                             !.ninject[1] = @ + (IF addj THEN 1 ELSE 0)],
                  "ValueError")
       ELSE LET w2 == [w1 EXCEPT
                          !.batch_template = t4,
                          !.ninject[1] = @ + (IF addj THEN 1 ELSE 0),
                          !.ninject[2] = @ + (IF addq THEN 1 ELSE 0)]
            IN IF ~(Fields(t4) \subseteq DOMAIN ctx)
               THEN Raise([w2 EXCEPT !.writes = LastTwo(Append(@, call))],
                          "KeyError")
               ELSE LET script_as_string == format(t4, ctx)
                    IN [w2 EXCEPT
                           !.batch_file = script_as_string,
                           !.writes = LastTwo(Append(@,
                               [n |-> n, queue |-> w.queue, context |-> ctx,
                                matched |-> call.matched,
                                added |-> call.added,
                                script |-> script_as_string]))]

\* a parse_job_id that takes the whole output when the regexp finds nothing
parse_job_id_lenient(w, out) ==
    [w EXCEPT !.job_id = w.njobs + 1, !.njobs = w.njobs + 1]

parse_job_id(w, out) ==
    IF out = "id"
    THEN [w EXCEPT !.job_id = w.njobs + 1, !.njobs = w.njobs + 1]
    ELSE Raise(w, "LauncherError")

SubmitStart(w, out) ==
    IF out = "fail" THEN Raise(w, "CalledProcessError")
    ELSE LET w1 == parse_job_id(w, out)
         IN  IF w1.err # "none" THEN w1
             ELSE notify_start(w1, 0, JobData(w1.job_id))

WinHPCStart(w, out) == SubmitStart(w, out)

BatchStart(w, n, profile_dir, out) ==
    LET w1 == write_batch_script(
                  [w EXCEPT !.context = SetKey(@, "profile_dir", profile_dir)],
                  n)
    IN IF w1.err # "none" THEN w1 ELSE SubmitStart(w1, out)

WinHPCStop(w, cancelled) ==
    IF w.job_id = 0 THEN Raise(w, "AttributeError")
    ELSE notify_stop(w, 0, JobStop(w.job_id,
                                   IF cancelled THEN "cancelled"
                                   ELSE "already stopped"))

BatchStop(w, deleted) ==
    IF w.job_id = 0 THEN Raise(w, "AttributeError")
    ELSE IF ~deleted THEN Raise(w, "CalledProcessError")
    ELSE notify_stop(w, 0, JobStop(w.job_id, "deleted"))

(***************************************************************************)
(* The launcher specification.  No kernel runs in it.                      *)
(***************************************************************************)
NoDispatch == [k |-> 0]

NoKernel ==
    /\ shell_q = <<>>
    /\ control_q = <<>>
    /\ aborted = {}
    /\ user_ns = <<>>
    /\ exec_lines = <<>>
    /\ exit_pending = FALSE
    /\ exited = FALSE
    /\ nmsg = 0
    /\ arrived = <<>>
    /\ sent = <<>>
    /\ invoked = <<>>
    /\ apply_log = <<>>
    /\ last_dispatch = NoDispatch
    /\ kerr = "none"
    /\ int_id = 0 - 1
    /\ prefix = <<>>

LauncherConstructed ==
    /\ state = [l \in Launcher |-> "before"]
    /\ start_data = [l \in Launcher |-> None]
    /\ stop_data = [l \in Launcher |->
                      IF l = 0 /\ variant \in {"set", "SSHEngineSetLauncher"}
                      THEN DictData(<<>>) ELSE None]
    /\ stop_callbacks = [l \in Launcher |-> <<>>]
    /\ process = [l \in Launcher |-> "None"]
    /\ poller = [l \in Launcher |-> FALSE]
    /\ handlers = [l \in Launcher |-> {}]
    /\ killers = [l \in Launcher |-> <<>>]
    /\ job_id = 0
    /\ njobs = 0
    /\ launchers = <<>>
    /\ nobj = 0
    /\ ncb = 0
    /\ cb_log = <<>>
    /\ notice_calls = [l \in Launcher |-> 0]
    /\ err = "none"
    /\ batch_file = <<>>
    /\ context = <<>>
    /\ writes = <<>>
    /\ ninject = <<0, 0>>
    /\ ssh = [l \in Launcher |-> [hostname |-> <<>>, user |-> <<>>,
                                  location |-> <<>>]]
    /\ spawned = <<>>

\* a batch launcher that is configured with nothing; no argument list and
\* no engines are configured
DefaultBatch ==
    /\ engines = <<>>
    /\ cargs = [l \in Launcher |-> <<>>]
    /\ flavor = "pbs"
    /\ queue = ""
    /\ batch_template_file = ""
    /\ batch_template = <<>>

InitLauncher ==
    /\ DefaultBatch
    /\ NoKernel
    /\ variant \in Variants
    /\ LauncherConstructed

ProfileDir == <<"/", "p">>

\* start(n, profile_dir) of a PBS or SGE launcher
StartBatch ==
    /\ variant = "batch"
    /\ njobs < MaxJobs
    /\ \E n \in 1 .. MaxN, out \in {"id", "nomatch", "fail"} :
          Commit(BatchStart(World, n, ProfileDir, out))

\* start(...) of the launcher under test
Start ==
    \/ /\ variant = "local"
       /\ Commit(LocalStart(World, 0))
    \/ /\ variant = "set"
       /\ \E n \in 1 .. MaxN :
             /\ nobj + n <= MaxChildren
             /\ Commit(SetStart(World, n))
    \/ StartBatch
    \/ /\ variant = "winhpc"
       /\ njobs < MaxJobs
       /\ \E out \in {"id", "nomatch", "fail"} : Commit(WinHPCStart(World, out))

\* stop() of the launcher under test
Stop ==
    \/ /\ variant = "local"
       /\ Len(killers[0]) < MaxKillers
       /\ \E raises \in BOOLEAN : Commit(LocalStop(World, 0, raises))
    \/ /\ variant = "set"
       /\ \A i \in DOMAIN launchers : Len(killers[launchers[i]]) < MaxKillers
       /\ \E R \in SUBSET DOMAIN launchers : Commit(SetStop(World, R))
    \/ /\ variant = "batch"
       /\ \E ok \in BOOLEAN : Commit(BatchStop(World, ok))
    \/ /\ variant = "winhpc"
       /\ \E ok \in BOOLEAN : Commit(WinHPCStop(World, ok))

\* signal(sig) of the launcher under test; BaseLauncher.signal raises
Signal ==
    \E sig \in {"SIGINT", "SIGKILL"} :
        \/ /\ variant = "local"
           /\ Commit(LocalSignal(World, 0, sig))
        \/ /\ variant = "set"
           /\ Commit(SetSignal(World, sig))
        \/ /\ variant \in {"batch", "winhpc"}
           /\ Commit(Raise(World, "NotImplementedError"))

\* interrupt_then_kill(delay) of the launcher under test
InterruptThenKill ==
    \/ /\ variant = "local"
       /\ Len(killers[0]) < MaxKillers
       /\ \E raises \in BOOLEAN :
             Commit(LocalInterruptThenKill(World, 0, raises))
    \/ /\ variant = "set"
       /\ \A i \in DOMAIN launchers : Len(killers[launchers[i]]) < MaxKillers
       /\ \E R \in SUBSET DOMAIN launchers :
             Commit(SetInterruptThenKill(World, R))

\* on_stop(f) of the launcher under test, f a function not passed before
OnStop ==
    /\ ncb < MaxCallbacks
    /\ Commit(on_stop([World EXCEPT !.ncb = ncb + 1], 0, ncb + 1))

\* the DelayedCallback of interrupt_then_kill fires: self.signal(SIGKILL)
Without(q, i) == SubSeq(q, 1, i - 1) \o SubSeq(q, i + 1, Len(q))

KillerFires(l) ==
    \E i \in DOMAIN killers[l] :
        Commit(LocalSignal([World EXCEPT !.killers[l] = Without(@, i)],
                           l, "SIGKILL"))

\* the PeriodicCallback of start fires: self.poll()
Poll(l) ==
    /\ poller[l]
    /\ Commit(LocalPoll(World, l))

\* the loop finds the child's stdout or stderr readable
HandleRead(l) ==
    \E fd \in handlers[l], line \in BOOLEAN :
        /\ line => process[l] \in Alive
        /\ Commit(LocalHandleRead(World, l, line))

\* the child process ends by itself
ProcessExits(l) ==
    /\ process[l] \in Alive
    /\ Commit([World EXCEPT !.process[l] = "exited"])

NextLauncher ==
    \/ Start
    \/ Stop
    \/ Signal
    \/ InterruptThenKill
    \/ OnStop
    \/ \E l \in Launcher : KillerFires(l)
    \/ \E l \in Launcher : Poll(l)
    \/ \E l \in Launcher : HandleRead(l)
    \/ \E l \in Launcher : ProcessExits(l)

SpecLauncher == InitLauncher /\ [][NextLauncher]_vars

\* the loop runs a DelayedCallback once its delay has elapsed
SpecLauncherLive == SpecLauncher /\ WF_vars(KillerFires(0))

(***************************************************************************)
(* A LocalProcessLauncher on a loop that keeps running: the loop runs the  *)
(* DelayedCallback of interrupt_then_kill once its delay has elapsed, and  *)
(* the PeriodicCallback of start every poll_frequency ms.                  *)
(***************************************************************************)
InitLocal ==
    /\ InitLauncher
    /\ variant = "local"

NextLocal ==
    \/ variant = "local" /\ Start
    \/ variant = "local" /\ Stop
    \/ variant = "local" /\ Signal
    \/ variant = "local" /\ InterruptThenKill
    \/ OnStop
    \/ KillerFires(0)
    \/ Poll(0)
    \/ HandleRead(0)
    \/ ProcessExits(0)

SpecLocal ==
    /\ InitLocal
    /\ [][NextLocal]_vars
    /\ WF_vars(KillerFires(0))
    /\ WF_vars(Poll(0))

(***************************************************************************)
(* The command line specification: the launcher classes whose start takes  *)
(* a profile directory, and the SSH engine set.  An argument is a string   *)
(* (its tokens) or an int; a host is the tokens of its name, so "a@h1" is  *)
(* <<"a", "@", "h1">>.                                                     *)
(***************************************************************************)
MaxStarts == 2

StrArg(toks) == [kind |-> "str", v |-> toks]
IntArg(n) == [kind |-> "int", v |-> <<ToString(n)>>]
\* str(n)
str(n) == StrArg(<<ToString(n)>>)

\* 'profile_dir=%s' % profile_dir
ProfileArg(profile_dir) == StrArg(<<"profile_dir", "=">> \o profile_dir)

\* ['--log-to-file', 'log_level=%i' % logging.INFO]
DefaultArgs == <<StrArg(<<"--log-to-file">>), StrArg(<<"log_level", "=", "20">>)>>

Count(args, a) == Cardinality({i \in DOMAIN args : args[i] = a})

ExtendClasses == {"LocalControllerLauncher", "LocalEngineLauncher",
                  "MPIExecControllerLauncher", "MPIExecEngineSetLauncher"}
SSHClasses == {"SSHControllerLauncher", "SSHEngineLauncher"}
WinHPCClasses == {"WindowsHPCControllerLauncher", "WindowsHPCEngineSetLauncher"}
ProfileClasses == ExtendClasses \cup SSHClasses \cup WinHPCClasses

\* the argument list trait a launcher of the class is constructed with:
\* controller_args, engine_args, program_args or extra_args
ConfiguredArgs(cls) ==
    CASE cls = "SSHControllerLauncher" ->
            <<StrArg(<<"--reuse-files">>)>> \o DefaultArgs
      [] cls \in WinHPCClasses -> <<>>
      [] OTHER -> DefaultArgs

\* find_args() of launcher l, of class cls
find_args(w, l, cls, n) ==
    CASE cls = "LocalControllerLauncher" ->
            <<StrArg(<<"ipcontroller">>)>> \o w.cargs[l]
      [] cls = "LocalEngineLauncher" ->
            <<StrArg(<<"ipengine">>)>> \o w.cargs[l]
      [] cls = "MPIExecControllerLauncher" ->
            <<StrArg(<<"mpiexec">>), StrArg(<<"-n">>), IntArg(n),
              StrArg(<<"ipcontroller">>)>> \o w.cargs[l]
      [] cls = "MPIExecEngineSetLauncher" ->
            <<StrArg(<<"mpiexec">>), StrArg(<<"-n">>), str(n),
              StrArg(<<"ipengine">>)>> \o w.cargs[l]
      [] cls = "SSHControllerLauncher" ->
            <<StrArg(<<"ssh">>), StrArg(<<"-tt">>), StrArg(w.ssh[l].location),
              StrArg(<<"ipcontroller">>)>> \o w.cargs[l]
      [] cls = "SSHEngineLauncher" ->
            <<StrArg(<<"ssh">>), StrArg(<<"-tt">>), StrArg(w.ssh[l].location),
              StrArg(<<"ipengine">>)>> \o w.cargs[l]

\* LocalProcessLauncher.start of a launcher whose find_args gives args:
\* Popen takes strings only
ProcessStart(w, l, args) ==
    IF w.state[l] # "before" THEN Raise(w, "ProcessStateError")
    ELSE IF \E i \in DOMAIN args : args[i].kind # "str"
    THEN Raise(w, "TypeError")
    ELSE LocalStart([w EXCEPT !.spawned = Append(@, [l |-> l, args |-> args])],
                    l)

\* start(profile_dir) of a local controller or engine, start(profile_dir)
\* of an MPIExec controller (n is 1), start(n, profile_dir) of an MPIExec
\* engine set
ExtendStart(w, l, cls, n, profile_dir) ==
    LET w1 == [w EXCEPT !.cargs[l] = @ \o <<ProfileArg(profile_dir)>>]
    IN  ProcessStart(w1, l, find_args(w1, l, cls, n))

\* the trait handlers of hostname and user run when the value changes
hostname_changed(w, l, new) ==
    IF new = w.ssh[l].hostname THEN w
    ELSE [w EXCEPT !.ssh[l].hostname = new,
                   !.ssh[l].location =
                       IF w.ssh[l].user # <<>>
                       THEN w.ssh[l].user \o <<"@">> \o new
                       ELSE new]

user_changed(w, l, new) ==
    IF new = w.ssh[l].user THEN w
    ELSE [w EXCEPT !.ssh[l].user = new,
                   !.ssh[l].location = new \o <<"@">> \o w.ssh[l].hostname]

\* SSHLauncher.start(profile_dir, hostname, user); an argument left at
\* None is the empty set, a given one the set of its value
SSHStart(w, l, cls, profile_dir, hostname, user) ==
    LET w1 == IF hostname = {} THEN w
              ELSE hostname_changed(w, l, CHOOSE h \in hostname : TRUE)
        w2 == IF user = {} THEN w1
              ELSE user_changed(w1, l, CHOOSE u \in user : TRUE)
    IN  ProcessStart(w2, l, find_args(w2, l, cls, 1))

\* write_job_file(n) followed by the job submission: every task of the job
\* gets the extra_args; the tasks run once the submit command succeeded
WinHPCProfileStart(w, cls, n, profile_dir, out) ==
    LET w1 == [w EXCEPT !.cargs[0] = <<ProfileArg(profile_dir)>>]
        tasks == [i \in 1 .. n |-> [l |-> 0, args |-> w1.cargs[0]]]
        w2 == IF out = "fail" THEN w1
              ELSE [w1 EXCEPT !.spawned = @ \o tasks]
    IN  WinHPCStart(w2, out)

\* '@' in host, and host.split('@', 1)
HasAt(host) == \E p \in DOMAIN host : host[p] = "@"
FirstAt(host) == CHOOSE p \in DOMAIN host :
                    host[p] = "@" /\ \A r \in 1 .. (p - 1) : host[r] # "@"
UserOf(host) == IF HasAt(host) THEN {SubSeq(host, 1, FirstAt(host) - 1)} ELSE {}
HostOf(host) == IF HasAt(host) THEN SubSeq(host, FirstAt(host) + 1, Len(host))
                ELSE host

RECURSIVE SSHSetEngineLoop(_, _, _, _, _), SSHSetHostLoop(_, _, _)
\* the inner loop of SSHEngineSetLauncher.start, for i, i+1, ..., n-1
SSHSetEngineLoop(w, key, i, profile_dir, args) ==
    IF i >= engines[key].n \/ w.err # "none"
    THEN w
    ELSE LET el == w.nobj + 1
             w1 == [w EXCEPT !.nobj = el, !.cargs[el] = args]
             w2 == on_stop(w1, el, NoticeCb)
             w3 == SSHStart(w2, el, "SSHEngineLauncher", profile_dir,
                            {HostOf(key)}, UserOf(key))
             index == HostOf(key) \o <<ToString(i)>>
             w4 == [w3 EXCEPT !.launchers =
                       [x \in DOMAIN @ \cup {index} |->
                           IF x = index THEN el ELSE @[x]]]
         IN  IF w3.err # "none" THEN w3
             ELSE SSHSetEngineLoop(w4, key, i + 1, profile_dir, args)

\* the outer loop, over engines.items() in the order the dict gives them
SSHSetHostLoop(w, order, profile_dir) ==
    IF order = <<>> \/ w.err # "none"
    THEN w
    ELSE LET key == Head(order)
             args == IF engines[key].args = {} THEN w.cargs[0]
                     ELSE CHOOSE a \in engines[key].args : TRUE
         IN  SSHSetHostLoop(SSHSetEngineLoop(w, key, 0, profile_dir, args),
                            Tail(order), profile_dir)

SSHEngineSetStart(w, order, profile_dir) ==
    LET w1 == SSHSetHostLoop(w, order, profile_dir)
    IN  IF w1.err # "none" THEN w1
        ELSE notify_start(w1, 0,
                 ListData([i \in 1 .. (w1.nobj - w.nobj) |-> None]))

\* the engines a set is configured with: host -> n or host -> (n, args)
Hosts == {<<"a", "@", "h1">>, <<"b", "@", "h1">>, <<"h1">>, <<"h2">>}
Override == <<StrArg(<<"--x">>)>>
Entries == [n : 1 .. MaxN, args : {{}, {Override}}]

RECURSIVE SumN(_, _)
SumN(e, H) ==
    IF H = {} THEN 0
    ELSE LET h == CHOOSE x \in H : TRUE
         IN  e[h].n + SumN(e, H \ {h})

TotalN(e) == SumN(e, DOMAIN e)

EngineConfigs ==
    {e \in UNION {[H -> Entries] : H \in (SUBSET Hosts) \ {{}}} :
        TotalN(e) <= MaxChildren}

Orders(S) == {q \in [1 .. Cardinality(S) -> S] : Range(q) = S}

InitArgs ==
    /\ NoKernel
    /\ variant \in ProfileClasses \cup {"SSHEngineSetLauncher"}
    /\ LauncherConstructed
    /\ flavor = "pbs"
    /\ queue = ""
    /\ batch_template_file = ""
    /\ batch_template = <<>>
    /\ engines \in IF variant = "SSHEngineSetLauncher" THEN EngineConfigs
                   ELSE {<<>>}
    /\ cargs = [l \in Launcher |->
                   IF l # 0 THEN <<>>
                   ELSE IF variant = "SSHEngineSetLauncher" THEN DefaultArgs
                   ELSE ConfiguredArgs(variant)]

\* start(profile_dir) or start(n, profile_dir) of the launcher under test
StartExtend ==
    /\ variant \in ExtendClasses
    /\ Count(cargs[0], ProfileArg(ProfileDir)) < MaxStarts
    /\ \E n \in 1 .. MaxN :
          /\ variant # "MPIExecEngineSetLauncher" => n = 1
          /\ Commit(ExtendStart(World, 0, variant, n, ProfileDir))

StartSSH ==
    /\ variant \in SSHClasses
    /\ \E hostname \in {{}, {<<"h1">>}}, user \in {{}, {<<"a">>}} :
          Commit(SSHStart(World, 0, variant, ProfileDir, hostname, user))

StartWinHPC ==
    /\ variant \in WinHPCClasses
    /\ njobs < MaxJobs
    /\ Len(spawned) < MaxStarts
    /\ \E n \in 1 .. MaxN, out \in {"id", "nomatch", "fail"} :
          /\ variant = "WindowsHPCControllerLauncher" => n = 1
          /\ Commit(WinHPCProfileStart(World, variant, n, ProfileDir, out))

StartSSHSet ==
    /\ variant = "SSHEngineSetLauncher"
    /\ nobj + TotalN(engines) <= MaxChildren
    /\ \E order \in Orders(DOMAIN engines) :
          Commit(SSHEngineSetStart(World, order, ProfileDir))

\* the process of the launcher under test, and the processes of the
\* engines of a set, end by themselves
NextArgs ==
    \/ StartExtend
    \/ StartSSH
    \/ StartWinHPC
    \/ StartSSHSet
    \/ Poll(0)
    \/ HandleRead(0)
    \/ \E l \in Launcher : ProcessExits(l)

SpecArgs == InitArgs /\ [][NextArgs]_vars

(***************************************************************************)
(* The batch script specification: a PBS or SGE launcher, its template     *)
(* configured in memory, in a file, or not at all.                         *)
(***************************************************************************)
Shebang == <<"#", "!", "/", "bin", "/", "sh", "\n">>

Templates(fl) ==
    {<<>>,
     Shebang \o job_array_template(fl) \o <<"\n", "cmd", "\n">>,
     Shebang \o queue_template(fl) \o <<"\n", "cmd", " ", "{", "n", "}", "\n">>,
     Directive(fl) \o <<"\n", "-", "t", " ", "4", "\n", "cmd", "\n">>,
     <<"cmd">>}

Queues == {"", "big"}

InitBatch ==
    /\ NoKernel
    /\ engines = <<>>
    /\ cargs = [l \in Launcher |-> <<>>]
    /\ variant = "batch"
    /\ LauncherConstructed
    /\ flavor \in {"pbs", "sge"}
    /\ queue \in Queues
    /\ batch_template_file \in {"", "template"}
    /\ batch_template \in Templates(flavor)

\* write_batch_script(n), called on its own
WriteBatchScript ==
    /\ variant = "batch"
    /\ \E n \in 1 .. MaxN : Commit(write_batch_script(World, n))

\* the queue trait is assigned
SetQueue ==
    /\ \E q \in Queues \ {queue} : queue' = q
    /\ UNCHANGED <<variant, state, start_data, stop_data, stop_callbacks,
                   process, poller, handlers, killers, job_id, njobs,
                   launchers, nobj, ncb, cb_log, notice_calls, err, flavor,
                   batch_template_file, batch_template, context, batch_file,
                   writes, ninject, avars, kvars>>

NextBatch ==
    \/ StartBatch
    \/ WriteBatchScript
    \/ SetQueue

SpecBatch == InitBatch /\ [][NextBatch]_vars

(***************************************************************************)
(* The engine kernel (streamkernel.py).                                    *)
(*                                                                         *)
(* A string the code takes apart is a sequence of its parts: a msg_type is *)
(* the sequence of the words between its underscores, a msg_id and a name  *)
(* of user_ns are sequences of characters.                                 *)
(***************************************************************************)
shell_streams == <<"mux", "task">>
control_stream == "control"
iopub_stream == "iopub"
Passer == "passer"
Streams == Range(shell_streams) \cup {control_stream}

\* "engine.%s" % self.int_id, the value _set_prefix assigns to prefix
set_prefix(id) == <<"engine", ToString(id)>>

\* the uuid of the k-th request; k = 0: a message made by session.msg
msg_id(k) == <<"m", "-", ToString(k)>>
Identities(k) == <<"client", ToString(k)>>

NotDash(c) == c # "-"
\* str(msg_id).replace("-", "")
StripDashes(id) == SelectSeq(id, NotDash)
\* msg_type.split('_')[0] + '_reply'
ReplyType(msg_type) == <<Head(msg_type), "reply">>

Msg(k, msg_type, content, buffers, idents) ==
    [k |-> k,
     header |-> [msg_id |-> msg_id(k), msg_type |-> msg_type],
     msg_type |-> msg_type,
     content |-> content,
     buffers |-> buffers,
     idents |-> idents]

KWorld ==
    [shell_q |-> shell_q, control_q |-> control_q, aborted |-> aborted,
     user_ns |-> user_ns, exec_lines |-> exec_lines,
     exit_pending |-> exit_pending, sent |-> sent, invoked |-> invoked,
     apply_log |-> apply_log, last_dispatch |-> NoDispatch, kerr |-> "none",
     cur |-> 0, by |-> 0, fault |-> 0]

KCommit(w) ==
    /\ shell_q' = w.shell_q
    /\ control_q' = w.control_q
    /\ aborted' = w.aborted
    /\ user_ns' = w.user_ns
    /\ exit_pending' = w.exit_pending
    /\ sent' = w.sent
    /\ invoked' = w.invoked
    /\ apply_log' = w.apply_log
    /\ last_dispatch' = w.last_dispatch
    /\ kerr' = w.kerr
    /\ UNCHANGED <<exec_lines, int_id, prefix, lvars>>

KRaise(w, e) == [w EXCEPT !.kerr = e]

\* session.send(stream, msg_type, content, parent, ident, buffers, subheader):
\* the message goes out on the stream behind the identities of ident, with
\* the header of parent as its parent_header; a _Passer sends nothing
session_send(w, stream, msg_type, content, parent, ident, buffers, subheader) ==
    IF stream = Passer THEN w
    ELSE [w EXCEPT !.sent = Append(@,
             [stream |-> stream, msg_type |-> msg_type, content |-> content,
              parent_header |-> parent.header, ident |-> ident,
              buffers |-> buffers, subheader |-> subheader, for |-> w.cur,
              by |-> w.by])]

wrap_exception(method, ename) ==
    [status |-> "error", ename |-> ename, engine_id |-> int_id,
     method |-> method]

RECURSIVE abort_queue(_, _)
abort_queue(w, stream) ==
    IF w.shell_q[stream] = <<>>
    THEN w
    ELSE LET msg == Head(w.shell_q[stream])
             idents == msg.idents
             w1 == [w EXCEPT !.shell_q[stream] = Tail(@), !.cur = msg.k]
             reply_type == ReplyType(msg.msg_type)
         IN abort_queue(session_send(w1, stream, reply_type,
                                     [status |-> "aborted"], msg, idents,
                                     <<>>, None),
                        stream)

\* w.fault = i: the transport fails when the drain comes to the i-th shell
\* stream, and the exception leaves abort_queues
RECURSIVE abort_queues_from(_, _)
abort_queues_from(w, i) ==
    IF i > Len(shell_streams)
    THEN w
    ELSE IF w.fault = i
         THEN KRaise(w, "ZMQError")
         ELSE abort_queues_from(abort_queue(w, shell_streams[i]), i + 1)

\* an abort_queues that drains the first shell stream only
abort_queues_first(w) ==
    [abort_queue([w EXCEPT !.by = w.cur], shell_streams[1])
        EXCEPT !.cur = w.cur, !.by = w.by]

\* the replies of the drain are marked with the request whose handler drains
abort_queues(w) ==
    [abort_queues_from([w EXCEPT !.by = w.cur], 1) EXCEPT !.cur = w.cur,
                                                          !.by = w.by]

abort_request(w, stream, ident, parent) ==
    LET given == "msg_ids" \in DOMAIN parent.content
        msg_ids == IF given THEN parent.content.msg_ids ELSE <<>>
        w1 == IF msg_ids = <<>> THEN abort_queues(w) ELSE w
    IN IF ~given
       THEN KRaise(w1, "TypeError")
       ELSE session_send([w1 EXCEPT !.aborted = @ \cup Range(msg_ids)],
                         stream, <<"abort", "reply">>, [status |-> "ok"],
                         parent, ident, <<>>, None)

\* a shutdown_request that sends its reply before it drains the queues
shutdown_request_reply_first(w, stream, ident, parent) ==
    LET content == [f \in DOMAIN parent.content \cup {"status"} |->
                      IF f = "status" THEN "ok" ELSE parent.content[f]]
        w1 == session_send(w, stream, <<"shutdown", "reply">>, content,
                           parent, ident, <<>>, None)
        w2 == [abort_queues(w1) EXCEPT !.kerr = w.kerr]
    IN [w2 EXCEPT !.exit_pending = TRUE]

shutdown_request(w, stream, ident, parent) ==
    LET failed == w.fault # 0
        \* try: self.abort_queues() / except: the exception stays inside
        w1 == [abort_queues(w) EXCEPT !.kerr = w.kerr]
        content == IF failed
                   THEN wrap_exception("shutdown", "ZMQError")
                   ELSE [f \in DOMAIN parent.content \cup {"status"} |->
                           IF f = "status" THEN "ok" ELSE parent.content[f]]
        w2 == session_send(w1, stream, <<"shutdown", "reply">>, content,
                           parent, ident, <<>>, None)
    IN [w2 EXCEPT !.exit_pending = TRUE]

(* user_ns: a function from names to values *)
Bind(ns, name, v) ==
    [n \in DOMAIN ns \cup {name} |-> IF n = name THEN v ELSE ns[n]]
Unbind(ns, name) == [n \in DOMAIN ns \ {name} |-> ns[n]]
EmptyNs == [n \in {} |-> "None"]

\* exec(comp_code, user_ns, user_ns) for the programs of the requests
exec(code, ns) ==
    CASE code = "x=1" -> [ns |-> Bind(ns, <<"x">>, "1"), ename |-> ""]
      [] code = "y=1" -> [ns |-> Bind(ns, <<"y">>, "1"), ename |-> ""]
      [] code = "x=2;raise" ->
             [ns |-> Bind(ns, <<"x">>, "2"), ename |-> "ValueError"]
      [] OTHER -> [ns |-> ns, ename |-> "SyntaxError"]

\* an execute_request that sends its reply before the pyerr broadcast
execute_request_reply_first(w, stream, ident, parent) ==
    IF "code" \notin DOMAIN parent.content
    THEN w
    ELSE LET code == parent.content.code
             w1 == session_send(w, iopub_stream, <<"pyin">>, [code |-> code],
                                parent, prefix \o <<"pyin">>, <<>>, None)
             r == exec(code, w1.user_ns)
             w2 == [w1 EXCEPT !.user_ns = r.ns]
             exc_content == wrap_exception("execute", r.ename)
             reply_content == IF r.ename # "" THEN exc_content
                              ELSE [status |-> "ok"]
             w3 == session_send(w2, stream, <<"execute", "reply">>,
                                reply_content, parent, ident, <<>>,
                                [started |-> "now"])
             w4 == IF r.ename # ""
                   THEN session_send(w3, iopub_stream, <<"pyerr">>,
                                     exc_content, parent,
                                     prefix \o <<"pyerr">>, <<>>, None)
                   ELSE w3
         IN IF reply_content.status = "error" THEN abort_queues(w4) ELSE w4

\* an execute_request without the try/except around the user's code
execute_request_escapes(w, stream, ident, parent) ==
    IF "code" \notin DOMAIN parent.content
    THEN w
    ELSE LET code == parent.content.code
             w1 == session_send(w, iopub_stream, <<"pyin">>, [code |-> code],
                                parent, prefix \o <<"pyin">>, <<>>, None)
             r == exec(code, w1.user_ns)
             w2 == [w1 EXCEPT !.user_ns = r.ns]
         IN IF r.ename # ""
            THEN KRaise(w2, r.ename)
            ELSE session_send(w2, stream, <<"execute", "reply">>,
                              [status |-> "ok"], parent, ident, <<>>,
                              [started |-> "now"])

execute_request(w, stream, ident, parent) ==
    IF "code" \notin DOMAIN parent.content
    THEN w
    ELSE LET code == parent.content.code
             w1 == session_send(w, iopub_stream, <<"pyin">>, [code |-> code],
                                parent, prefix \o <<"pyin">>, <<>>, None)
             r == exec(code, w1.user_ns)
             w2 == [w1 EXCEPT !.user_ns = r.ns]
             exc_content == wrap_exception("execute", r.ename)
             w3 == IF r.ename # ""
                   THEN session_send(w2, iopub_stream, <<"pyerr">>,
                                     exc_content, parent,
                                     prefix \o <<"pyerr">>, <<>>, None)
                   ELSE w2
             reply_content == IF r.ename # "" THEN exc_content
                              ELSE [status |-> "ok"]
             w4 == session_send(w3, stream, <<"execute", "reply">>,
                                reply_content, parent, ident, <<>>,
                                [started |-> "now"])
         IN IF reply_content.status = "error" THEN abort_queues(w4) ELSE w4

RECURSIVE exec_lines_from(_, _)
exec_lines_from(w, i) ==
    IF i > Len(w.exec_lines)
    THEN w
    ELSE LET content == [silent |-> TRUE, code |-> w.exec_lines[i]]
             msg == Msg(0, <<"execute", "request">>, content, <<>>, <<>>)
         IN exec_lines_from(execute_request(w, Passer, <<>>, msg), i + 1)

initial_exec_lines(w) ==
    [exec_lines_from([w EXCEPT !.cur = 0], 1) EXCEPT !.cur = w.cur]

\* a clear_request that links its reply to a message of its own
clear_request_orphan(w, stream, idents, parent) ==
    LET w1 == [w EXCEPT !.user_ns = EmptyNs]
        w2 == session_send(w1, stream, <<"clear", "reply">>, [status |-> "ok"],
                           Msg(0, <<"clear", "request">>, None, <<>>, <<>>),
                           idents, <<>>, None)
    IN initial_exec_lines(w2)

\* a clear_request that leaves the namespace as it is
clear_request_keeps(w, stream, idents, parent) ==
    LET w2 == session_send(w, stream, <<"clear", "reply">>, [status |-> "ok"],
                           parent, idents, <<>>, None)
    IN initial_exec_lines(w2)

clear_request(w, stream, idents, parent) ==
    LET w1 == [w EXCEPT !.user_ns = EmptyNs]
        w2 == session_send(w1, stream, <<"clear", "reply">>, [status |-> "ok"],
                           parent, idents, <<>>, None)
    IN initial_exec_lines(w2)

\* completer.complete(line, text): the names of user_ns that begin with text
complete(w, msg) ==
    {n \in DOMAIN w.user_ns : Head(n) = msg.content.text}

\* a complete_request that sends its reply without the identities
complete_request_unrouted(w, stream, ident, parent) ==
    LET matches == [matches |-> complete(w, parent), status |-> "ok"]
    IN session_send(w, stream, <<"complete", "reply">>, matches, parent, <<>>,
                    <<>>, None)

complete_request(w, stream, ident, parent) ==
    LET matches == [matches |-> complete(w, parent), status |-> "ok"]
    IN session_send(w, stream, <<"complete", "reply">>, matches, parent, ident,
                    <<>>, None)

\* unpack_apply_message(bufs, working): f, args, kwargs from three buffers
unpack_apply_message(bufs) ==
    IF Len(bufs) = 3
    THEN [f |-> bufs[1], args |-> bufs[2], kwargs |-> bufs[3], ename |-> ""]
    ELSE [ename |-> "ValueError"]

\* exec("result = f(*args, **kwargs)", working, working) for the functions
\* of the requests
call(f, working, resultname) ==
    CASE f = "f_set" ->
             [ns |-> Bind(Bind(working, <<"x">>, "3"), resultname, "r"),
              ename |-> ""]
      [] f = "f_unmet" -> [ns |-> working, ename |-> "UnmetDependency"]
      [] OTHER -> [ns |-> Bind(working, <<"y">>, "4"), ename |-> "ValueError"]

\* serialize_object(result): the packed result and its data buffers
serialize_object(result) == [packed |-> <<"pickled", result>>, buf |-> <<>>]

\* a cleanup that pops the first key only
pop_keys_first(working, keys) ==
    [ns |-> Unbind(working, Head(keys)), ename |-> ""]

\* for key in ns.keys(): working.pop(key)
RECURSIVE pop_keys(_, _)
pop_keys(working, keys) ==
    IF keys = <<>>
    THEN [ns |-> working, ename |-> ""]
    ELSE IF Head(keys) \notin DOMAIN working
         THEN [ns |-> working, ename |-> "KeyError"]
         ELSE pop_keys(Unbind(working, Head(keys)), Tail(keys))

SyntheticNames(mid) ==
    LET pre == <<"_">> \o StripDashes(mid) \o <<"_">>
    IN <<pre \o <<"f">>, pre \o <<"args">>, pre \o <<"kwargs">>,
         pre \o <<"result">>>>

\* an apply_request that reports its dependencies as met whatever was raised
apply_request_deps_met(w, stream, ident, parent) ==
    LET bufs == parent.buffers
        mid == parent.header.msg_id
        u == unpack_apply_message(bufs)
        names == SyntheticNames(mid)
        fname == names[1]
        argname == names[2]
        kwargname == names[3]
        resultname == names[4]
        working == Bind(Bind(Bind(Bind(w.user_ns, fname, u.f),
                                  argname, u.args),
                             kwargname, u.kwargs),
                        resultname, "None")
        r == call(u.f, working, resultname)
        result == IF resultname \in DOMAIN r.ns THEN r.ns[resultname]
                  ELSE "None"
        fin == pop_keys(r.ns, names)
        ename == IF u.ename # "" THEN u.ename
                 ELSE IF fin.ename # "" THEN fin.ename ELSE r.ename
        w1 == IF u.ename # "" THEN w ELSE [w EXCEPT !.user_ns = fin.ns]
        exc_content == wrap_exception("apply", ename)
        w2 == IF ename # ""
              THEN session_send(w1, iopub_stream, <<"pyerr">>, exc_content,
                                parent, prefix \o <<"pyerr">>, <<>>, None)
              ELSE w1
        reply_content == IF ename # "" THEN exc_content ELSE [status |-> "ok"]
        ser == serialize_object(result)
        result_buf == IF ename # "" THEN <<>> ELSE <<ser.packed>> \o ser.buf
        sub == [dependencies_met |-> TRUE,
                engine |-> "ident", started |-> "now",
                status |-> reply_content.status]
        w3 == session_send(w2, stream, <<"apply", "reply">>, reply_content,
                           parent, ident, result_buf, sub)
    IN [w3 EXCEPT !.apply_log = Append(@,
           [k |-> parent.k, f |-> bufs, before |-> w.user_ns,
            after |-> w3.user_ns])]

apply_request(w, stream, ident, parent) ==
    LET bufs == parent.buffers
        mid == parent.header.msg_id
        u == unpack_apply_message(bufs)
        names == SyntheticNames(mid)
        fname == names[1]
        argname == names[2]
        kwargname == names[3]
        resultname == names[4]
        working == Bind(Bind(Bind(Bind(w.user_ns, fname, u.f),
                                  argname, u.args),
                             kwargname, u.kwargs),
                        resultname, "None")
        r == call(u.f, working, resultname)
        result == IF resultname \in DOMAIN r.ns THEN r.ns[resultname]
                  ELSE "None"
        fin == pop_keys(r.ns, names)
        ename == IF u.ename # "" THEN u.ename
                 ELSE IF fin.ename # "" THEN fin.ename ELSE r.ename
        w1 == IF u.ename # "" THEN w ELSE [w EXCEPT !.user_ns = fin.ns]
        exc_content == wrap_exception("apply", ename)
        w2 == IF ename # ""
              THEN session_send(w1, iopub_stream, <<"pyerr">>, exc_content,
                                parent, prefix \o <<"pyerr">>, <<>>, None)
              ELSE w1
        reply_content == IF ename # "" THEN exc_content ELSE [status |-> "ok"]
        ser == serialize_object(result)
        result_buf == IF ename # "" THEN <<>> ELSE <<ser.packed>> \o ser.buf
        sub == [dependencies_met |-> ename # "UnmetDependency",
                engine |-> "ident", started |-> "now",
                status |-> reply_content.status]
        w3 == session_send(w2, stream, <<"apply", "reply">>, reply_content,
                           parent, ident, result_buf, sub)
    IN [w3 EXCEPT !.apply_log = Append(@,
           [k |-> parent.k, f |-> bufs, before |-> w.user_ns,
            after |-> w3.user_ns])]

shell_handlers ==
    {<<"execute", "request">>, <<"complete", "request">>,
     <<"apply", "request">>, <<"clear", "request">>}

control_handlers ==
    {<<"shutdown", "request">>, <<"abort", "request">>} \cup shell_handlers

\* handler(stream, idents, msg) for the handler the tables hold for a type
handler(w, stream, idents, msg) ==
    LET t == msg.msg_type
        w1 == [w EXCEPT !.invoked = Append(@,
                  [k |-> msg.k, stream |-> stream,
                   waiting |-> {w.control_q[i].k : i \in DOMAIN w.control_q}])]
    IN CASE t = <<"execute", "request">> ->
                execute_request(w1, stream, idents, msg)
         [] t = <<"complete", "request">> ->
                complete_request(w1, stream, idents, msg)
         [] t = <<"apply", "request">> ->
                apply_request(w1, stream, idents, msg)
         [] t = <<"clear", "request">> ->
                clear_request(w1, stream, idents, msg)
         [] t = <<"shutdown", "request">> ->
                shutdown_request(w1, stream, idents, msg)
         [] t = <<"abort", "request">> ->
                abort_request(w1, stream, idents, msg)

\* a dispatch_control that answers a type it does not know with an error
dispatch_control_replies(w, msg) ==
    LET idents == msg.idents
        w1 == [w EXCEPT !.cur = msg.k]
    IN IF msg.msg_type \notin control_handlers
       THEN session_send(w1, control_stream, ReplyType(msg.msg_type),
                         [status |-> "error"], msg, idents, <<>>, None)
       ELSE handler(w1, control_stream, idents, msg)

\* a dispatch_control that makes the abort check of dispatch_queue
dispatch_control_checks(w, msg) ==
    LET idents == msg.idents
        mid == msg.header.msg_id
        w1 == [w EXCEPT !.cur = msg.k]
    IN IF mid \in w.aborted
       THEN session_send([w1 EXCEPT !.aborted = @ \ {mid}], control_stream,
                         ReplyType(msg.msg_type), [status |-> "aborted"],
                         msg, idents, <<>>, None)
       ELSE IF msg.msg_type \notin control_handlers
            THEN w1
            ELSE handler(w1, control_stream, idents, msg)

dispatch_control(w, msg) ==
    LET idents == msg.idents
        w1 == [w EXCEPT !.cur = msg.k]
    IN IF msg.msg_type \notin control_handlers
       THEN w1
       ELSE handler(w1, control_stream, idents, msg)

\* a flush that leaves the waiting messages where they are
flush_nothing(w) == w

\* control_stream.flush(): the callback of on_recv for every waiting message
RECURSIVE flush(_)
flush(w) ==
    IF w.control_q = <<>>
    THEN w
    ELSE flush(dispatch_control([w EXCEPT !.control_q = Tail(@)],
                                Head(w.control_q)))

\* a check that finds no id in the set
check_aborted_never(w, mid) == FALSE

check_aborted(w, mid) == mid \in w.aborted

\* a dispatch_queue that answers an aborted request and runs it all the same
dispatch_queue_runs_aborted(w, stream, msg) ==
    LET idents == msg.idents
        mid == msg.header.msg_id
        w1 == [flush(w) EXCEPT !.cur = msg.k]
        w2 == [w1 EXCEPT !.last_dispatch =
                  [k |-> msg.k, stream |-> stream,
                   control |-> {w.control_q[i].k : i \in DOMAIN w.control_q},
                   in_set |-> mid \in w1.aborted,
                   user_ns |-> w1.user_ns, nsent |-> Len(w1.sent)]]
        w3 == IF check_aborted(w2, mid)
              THEN session_send([w2 EXCEPT !.aborted = @ \ {mid}], stream,
                                ReplyType(msg.msg_type), [status |-> "aborted"],
                                msg, idents, <<>>, None)
              ELSE w2
    IN IF msg.msg_type \notin shell_handlers
       THEN w3
       ELSE handler(w3, stream, idents, msg)

dispatch_queue(w, stream, msg) ==
    LET idents == msg.idents
        mid == msg.header.msg_id
        w1 == [flush(w) EXCEPT !.cur = msg.k]
        w2 == [w1 EXCEPT !.last_dispatch =
                  [k |-> msg.k, stream |-> stream,
                   control |-> {w.control_q[i].k : i \in DOMAIN w.control_q},
                   in_set |-> mid \in w1.aborted,
                   user_ns |-> w1.user_ns, nsent |-> Len(w1.sent)]]
    IN IF check_aborted(w2, mid)
       THEN session_send([w2 EXCEPT !.aborted = @ \ {mid}], stream,
                         ReplyType(msg.msg_type), [status |-> "aborted"],
                         msg, idents, <<>>, None)
       ELSE IF msg.msg_type \notin shell_handlers
            THEN w2
            ELSE handler(w2, stream, idents, msg)

(***************************************************************************)
(* The kernel specification.                                               *)
(***************************************************************************)
Codes == {"x=1", "x=2;raise"}
Functions == {"f_set", "f_raise"}
ExecLineConfigs == {<<"y=1">>}

Request(words, content, buffers) ==
    [msg_type |-> <<words, "request">>, content |-> content,
     buffers |-> buffers]

ExecuteRequests == {Request("execute", [code |-> c], <<>>) : c \in Codes}
ApplyRequests ==
    {Request("apply", [bound |-> FALSE], <<f, "args", "kwargs">>) :
        f \in Functions}
CompleteRequest == Request("complete", [line |-> "x", text |-> "x"], <<>>)
ClearRequest == Request("clear", [block |-> FALSE], <<>>)
ShutdownRequest == Request("shutdown", [restart |-> FALSE], <<>>)
\* an abort_request without msg_ids, and one for an earlier request
AbortRequests(k) ==
    {Request("abort", [block |-> FALSE], <<>>)}
    \cup {Request("abort", [msg_ids |-> <<msg_id(j)>>], <<>>) :
            j \in 1 .. (k - 1)}

\* the requests the clients send as the k-th one on a stream
Requests(stream, k) ==
    CASE stream = control_stream ->
             AbortRequests(k) \cup {ShutdownRequest}
             \cup {Request("execute", [code |-> "x=2;raise"], <<>>)}
      [] stream = shell_streams[1] ->
             ExecuteRequests \cup ApplyRequests
             \cup {CompleteRequest, ClearRequest, ShutdownRequest}
      [] OTHER -> {Request("execute", [code |-> "x=1"], <<>>),
                   Request("apply", [bound |-> FALSE],
                           <<"f_unmet", "args", "kwargs">>)}

\* Kernel.__init__ of a kernel whose exec_lines trait is one of configs
KernelConstructed(configs) ==
    /\ variant = "local"
    /\ DefaultBatch
    /\ LauncherConstructed
    /\ exec_lines \in configs
    /\ int_id = 0 - 1
    /\ prefix = set_prefix(int_id)
    /\ LET w == initial_exec_lines(
                   [shell_q |-> [s \in Range(shell_streams) |-> <<>>],
                    control_q |-> <<>>, aborted |-> {}, user_ns |-> EmptyNs,
                    exec_lines |-> exec_lines, exit_pending |-> FALSE,
                    sent |-> <<>>, invoked |-> <<>>, apply_log |-> <<>>,
                    last_dispatch |-> NoDispatch, kerr |-> "none", cur |-> 0,
                    by |-> 0, fault |-> 0])
       IN /\ shell_q = w.shell_q
          /\ control_q = w.control_q
          /\ aborted = w.aborted
          /\ user_ns = w.user_ns
          /\ exit_pending = w.exit_pending
          /\ sent = w.sent
          /\ invoked = w.invoked
          /\ apply_log = w.apply_log
          /\ last_dispatch = w.last_dispatch
          /\ kerr = w.kerr
    /\ exited = FALSE
    /\ nmsg = 0
    /\ arrived = <<>>

InitKernel == KernelConstructed(ExecLineConfigs)

\* the k-th request is one of Req(stream, k) and reaches the socket of stream
RecvFrom(Req(_, _)) ==
    /\ ~exited
    /\ \E stream \in Streams : \E r \in Req(stream, nmsg + 1) :
          LET m == Msg(nmsg + 1, r.msg_type, r.content, r.buffers,
                       Identities(nmsg + 1))
          IN /\ arrived' = Append(arrived, [on |-> stream] @@ m)
             /\ IF stream = control_stream
                THEN /\ control_q' = Append(control_q, m)
                     /\ UNCHANGED shell_q
                ELSE /\ shell_q' = [shell_q EXCEPT ![stream] = Append(@, m)]
                     /\ UNCHANGED control_q
    /\ nmsg' = nmsg + 1
    /\ UNCHANGED <<aborted, user_ns, exec_lines, exit_pending, exited, sent,
                   invoked, apply_log, last_dispatch, kerr, int_id, prefix,
                   lvars>>

\* a client's request reaches the socket of a stream
Recv ==
    /\ nmsg < MaxMsgs
    /\ RecvFrom(Requests)

\* the loop runs the on_recv callback of the control stream
DispatchControl ==
    /\ ~exited
    /\ control_q # <<>>
    /\ KCommit(dispatch_control([KWorld EXCEPT !.control_q = Tail(@)],
                                Head(control_q)))
    /\ UNCHANGED <<exited, nmsg, arrived>>

\* the loop runs the on_recv callback of a shell stream
DispatchQueue(stream) ==
    /\ ~exited
    /\ shell_q[stream] # <<>>
    /\ KCommit(dispatch_queue([KWorld EXCEPT !.shell_q[stream] = Tail(@)],
                              stream, Head(shell_q[stream])))
    /\ UNCHANGED <<exited, nmsg, arrived>>

\* the DelayedCallback of shutdown_request fires: sys.exit(0)
Exit ==
    /\ exit_pending
    /\ ~exited
    /\ exited' = TRUE
    /\ UNCHANGED <<shell_q, control_q, aborted, user_ns, exec_lines,
                   exit_pending, nmsg, arrived, sent, invoked, apply_log,
                   last_dispatch, kerr, int_id, prefix, lvars>>

NextKernel ==
    \/ Recv
    \/ DispatchControl
    \/ \E stream \in Range(shell_streams) : DispatchQueue(stream)
    \/ Exit

SpecKernel == InitKernel /\ [][NextKernel]_vars

(***************************************************************************)
(* The kernel under clients that abort: an abort_request comes without     *)
(* msg_ids, with an empty list, or names a request the client has sent or  *)
(* sends next; any stream may get it.                                      *)
(***************************************************************************)
AbortTraffic(stream, k) ==
    LET aborts == {Request("abort", [block |-> FALSE], <<>>),
                   Request("abort", [msg_ids |-> <<>>], <<>>)}
                  \cup {Request("abort", [msg_ids |-> <<msg_id(j)>>], <<>>) :
                          j \in (1 .. (k - 1)) \cup ({k + 1} \cap (1 .. MaxMsgs))}
    IN CASE stream = control_stream ->
                aborts \cup {Request("execute", [code |-> "x=1"], <<>>),
                             Request("history", [n |-> 1], <<>>)}
         [] stream = shell_streams[1] ->
                ExecuteRequests
                \cup {Request("abort", [block |-> FALSE], <<>>), ShutdownRequest}
         [] OTHER -> {Request("execute", [code |-> "x=1"], <<>>)}

RecvAbort ==
    /\ nmsg < MaxMsgs
    /\ RecvFrom(AbortTraffic)

NextAbort ==
    \/ RecvAbort
    \/ DispatchControl
    \/ \E stream \in Range(shell_streams) : DispatchQueue(stream)

SpecAbort == InitKernel /\ [][NextAbort]_vars

(***************************************************************************)
(* The kernel under clients that shut it down, on a transport that may     *)
(* fail while the shell queues are drained.                                *)
(***************************************************************************)
ShutdownTraffic(stream, k) ==
    CASE stream = control_stream ->
             {ShutdownRequest, Request("execute", [code |-> "x=1"], <<>>)}
      [] stream = shell_streams[1] -> ExecuteRequests
      [] OTHER -> {Request("execute", [code |-> "x=1"], <<>>)}

RecvShutdown ==
    /\ nmsg < MaxMsgs
    /\ RecvFrom(ShutdownTraffic)

\* the loop runs the on_recv callback of the control stream and the
\* transport fails in a drain at the f-th shell stream
DispatchControlFault ==
    /\ ~exited
    /\ control_q # <<>>
    /\ \E f \in DOMAIN shell_streams :
          KCommit(dispatch_control([KWorld EXCEPT !.control_q = Tail(@),
                                                  !.fault = f],
                                   Head(control_q)))
    /\ UNCHANGED <<exited, nmsg, arrived>>

NextShutdown ==
    \/ RecvShutdown
    \/ DispatchControl
    \/ DispatchControlFault
    \/ \E stream \in Range(shell_streams) : DispatchQueue(stream)
    \/ Exit

\* the loop runs a DelayedCallback once its delay has elapsed
SpecShutdown == InitKernel /\ [][NextShutdown]_vars /\ WF_vars(Exit)

(***************************************************************************)
(* The kernel of an engine configured with exec_lines that succeed, that   *)
(* raise, or with none: clear_request runs them again while requests wait  *)
(* on the shell streams.                                                   *)
(***************************************************************************)
RaisingExecLineConfigs ==
    {<<>>, <<"y=1">>, <<"x=2;raise">>, <<"y=1", "x=2;raise">>}

ExecLinesTraffic(stream, k) ==
    CASE stream = control_stream -> {ClearRequest}
      [] stream = shell_streams[1] ->
             {ClearRequest, Request("execute", [code |-> "x=1"], <<>>)}
      [] OTHER -> {Request("execute", [code |-> "x=1"], <<>>),
                   CompleteRequest}

InitExecLines == KernelConstructed(RaisingExecLineConfigs)

RecvExecLines ==
    /\ nmsg < MaxMsgs
    /\ RecvFrom(ExecLinesTraffic)

NextExecLines ==
    \/ RecvExecLines
    \/ DispatchControl
    \/ \E stream \in Range(shell_streams) : DispatchQueue(stream)

SpecExecLines == InitExecLines /\ [][NextExecLines]_vars

(***************************************************************************)
(* The kernel of an engine whose int_id is assigned after construction:    *)
(* __init__ registers _set_prefix for the trait 'id', and the trait that   *)
(* is assigned is int_id.                                                  *)
(***************************************************************************)
EngineIds == 0 .. 1

IdentTraffic(stream, k) ==
    CASE stream = control_stream ->
             {Request("execute", [code |-> "x=2;raise"], <<>>)}
      [] stream = shell_streams[1] -> ExecuteRequests
      [] OTHER -> {Request("apply", [bound |-> FALSE],
                           <<"f_raise", "args", "kwargs">>)}

RecvIdent ==
    /\ nmsg < MaxMsgs
    /\ RecvFrom(IdentTraffic)

\* kernel.int_id = id: no handler is registered for the trait int_id
SetIntId ==
    /\ \E id \in EngineIds \ {int_id} : int_id' = id
    /\ UNCHANGED <<shell_q, control_q, aborted, user_ns, exec_lines,
                   exit_pending, exited, nmsg, arrived, sent, invoked,
                   apply_log, last_dispatch, kerr, prefix, lvars>>

NextIdent ==
    \/ RecvIdent
    \/ SetIntId
    \/ DispatchControl
    \/ \E stream \in Range(shell_streams) : DispatchQueue(stream)

SpecIdent == InitKernel /\ [][NextIdent]_vars

(***************************************************************************)
(* Properties of the launchers.                                            *)
(***************************************************************************)
Rank(s) == CASE s = "before" -> 0 [] s = "running" -> 1 [] OTHER -> 2

\* the calls of the user's k-th callback so far
Calls(k) == Cardinality({i \in DOMAIN cb_log : cb_log[i].cb = k})

\* C1: no operation moves the state of a launcher backwards along
\* before -> running -> after.
C1_MonotoneState ==
    [][\A l \in Launcher : Rank(state'[l]) >= Rank(state[l])]_vars

\* C2: every callback passed to on_stop has been called exactly once, with
\* the launcher's stop_data, unless it still waits in stop_callbacks, and
\* none waits once the launcher is in 'after' (a callback passed in 'after'
\* is called inside on_stop and is not enqueued); the same for the
\* callback a set registers on each of its children.
C2_CallbacksExactlyOnce ==
    /\ \A k \in 1 .. ncb :
          Calls(k) = IF k \in Range(stop_callbacks[0]) THEN 0 ELSE 1
    /\ \A i \in DOMAIN cb_log : cb_log[i].data = cb_log[i].sd
    /\ \A l \in Launcher : state[l] = "after" => stop_callbacks[l] = <<>>
    /\ \A c \in 1 .. nobj :
          notice_calls[c] = IF NoticeCb \in Range(stop_callbacks[c]) THEN 0 ELSE 1

\* A launcher in 'after' that was stopped again after one callback fired at
\* the transition, and that called another one inside on_stop.
C2_Witness ==
    /\ state[0] = "after"
    /\ \E i \in DOMAIN cb_log :
          ~cb_log[i].inline /\ cb_log[i].data # stop_data[0]
    /\ \E j \in DOMAIN cb_log : cb_log[j].inline

\* C3: the callbacks of a launcher are called in the order of their
\* registration (the k-th registered callback has the number k).
C3_RegistrationOrder ==
    \A i, j \in DOMAIN cb_log : i < j => cb_log[i].cb < cb_log[j].cb

\* C4: a set is in 'after' exactly when every child it started is, and its
\* stop_data then has one entry per started child.
C4_SetCompletion ==
    variant = "set" =>
        /\ state[0] = "after" =>
              /\ \A c \in 1 .. nobj : state[c] = "after"
              /\ Cardinality(DOMAIN stop_data[0].m) = nobj
        /\ state[0] = "running" => \E c \in 1 .. nobj : state[c] # "after"

\* C11: a start of the launcher in a state other than 'before' ends with
\* ProcessStateError and spawns no process, constructs no child and submits
\* no job, leaving state and start_data as they were; a start from 'before'
\* that ends without an error leaves the launcher in 'running'.
C11_StartOnlyFromBefore ==
    [][Start =>
          IF state[0] = "before"
          THEN err' = "none" => state'[0] = "running"
          ELSE /\ err' = "ProcessStateError"
               /\ UNCHANGED <<state, start_data, process, njobs, nobj>>]_vars

\* C12: a stop or a signal of a launcher that is not 'running' raises
\* nothing, leaves state, start_data and stop_data as they are, calls no
\* callback and delivers no signal; and a delayed kill that was scheduled
\* while the launcher was not 'running' delivers no signal when it fires.
C12_NoOpOutsideRunning ==
    [][/\ ((Stop \/ Signal) /\ state[0] # "running") =>
             /\ err' = "none"
             /\ UNCHANGED <<state, start_data, stop_data, cb_log, process>>
       /\ \A l \in Launcher :
             (KillerFires(l) /\ "running" \notin Range(killers[l])) =>
                 process' = process]_vars

\* C13: start_data of a launcher is None exactly in 'before' and stop_data
\* is not None exactly in 'after'.
C13_DataIffState ==
    \A l \in Launcher :
        /\ start_data[l] # None <=> state[l] # "before"
        /\ stop_data[l] # None <=> state[l] = "after"

\* C14: interrupt_then_kill of a running local launcher delivers SIGINT to
\* the living process in the call itself unless the signal raises, ends
\* without an error either way with the kill scheduled, and leaves the
\* launcher 'running' with no callback called; the scheduled kill ends a
\* process that lives when it fires on a running launcher; and once a kill
\* is scheduled on a running launcher the process does not stay alive for
\* ever.
C14_InterruptThenKill ==
    /\ [][/\ \A raises \in BOOLEAN :
                (/\ variant = "local"
                 /\ state[0] = "running"
                 /\ Commit(LocalInterruptThenKill(World, 0, raises))) =>
                    /\ err' = "none"
                    /\ killers'[0] = Append(killers[0], "running")
                    /\ ((~raises /\ process[0] \in Alive) =>
                           process'[0] = "interrupted")
                    /\ UNCHANGED <<state, start_data, stop_data, cb_log>>
          /\ (/\ variant = "local"
              /\ KillerFires(0)
              /\ state[0] = "running"
              /\ process[0] \in Alive) => process'[0] = "killed"]_vars
    /\ (variant = "local" /\ state[0] = "running" /\ killers[0] # <<>>)
           ~> (process[0] \notin Alive)

\* the interrupt of a running local launcher raised and the kill is
\* scheduled all the same
C14_Witness ==
    /\ variant = "local"
    /\ state[0] = "running"
    /\ process[0] = "alive"
    /\ killers[0] = <<"running">>

\* C25: stop() of a running batch or WinHPC launcher, whether its delete or
\* cancel command succeeds or fails, lets no exception out, leaves the
\* launcher in 'after' with stop_data set, and calls every registered stop
\* callback.
C25_StopFailureSwallowed ==
    [][(variant \in {"batch", "winhpc"} /\ state[0] = "running" /\ Stop) =>
          /\ err' = "none"
          /\ state'[0] = "after"
          /\ stop_data'[0] # None
          /\ stop_callbacks'[0] = <<>>
          /\ \A i \in DOMAIN stop_callbacks[0] :
                \E j \in (Len(cb_log) + 1) .. Len(cb_log') :
                    cb_log'[j].cb = stop_callbacks[0][i]]_vars

\* start of the batch or WinHPC launcher under test, the submit command
\* answering with out
SubmitWith(n, out) ==
    IF variant = "batch"
    THEN BatchStart(World, n, ProfileDir, out)
    ELSE WinHPCStart(World, out)

\* C26: start of a batch or WinHPC launcher in state 'before' whose submit
\* command prints no match of job_id_regexp ends with LauncherError; and a
\* start that ends with LauncherError leaves the launcher in 'before' with
\* start_data None, no job id, its stop callbacks registered as before and
\* none of them called.
C26_NoJobIdFails ==
    /\ []((variant \in {"batch", "winhpc"} /\ state[0] = "before") =>
             \A n \in 1 .. MaxN :
                 LET w == SubmitWith(n, "nomatch")
                 IN /\ w.err = "LauncherError"
                    /\ w.state[0] = "before"
                    /\ w.start_data[0] = None)
    /\ [][(/\ variant \in {"batch", "winhpc"}
            /\ state[0] = "before"
            /\ err' = "LauncherError"
            /\ Start) =>
              /\ state'[0] = "before"
              /\ start_data'[0] = None
              /\ job_id' = job_id
              /\ stop_callbacks' = stop_callbacks
              /\ cb_log' = cb_log]_vars

\* a start has ended with LauncherError on a launcher that has a stop
\* callback registered
C26_Witness ==
    /\ variant \in {"batch", "winhpc"}
    /\ err = "LauncherError"
    /\ state[0] = "before"
    /\ stop_callbacks[0] # <<>>

\* the local launcher has stopped: stop_data holds exit_code and pid, and
\* every stop callback passed to on_stop has been called
LocalStopped ==
    /\ state[0] = "after"
    /\ stop_data[0].tag = "exit"
    /\ stop_data[0].pid = PidOf(0)
    /\ stop_data[0].exit_code = ExitCode(process[0])
    /\ stop_callbacks[0] = <<>>
    /\ \A k \in 1 .. ncb : Calls(k) >= 1

\* C29: a local launcher on which stop() or interrupt_then_kill(delay) was
\* called while it was running, whether or not its process ends at the
\* interrupt, reaches 'after' with exit_code and pid in stop_data and its
\* stop callbacks called; and a local launcher in 'after' is always so.
C29_LocalReachesAfter ==
    /\ [](variant = "local" /\ state[0] = "after" => LocalStopped)
    /\ ((/\ variant = "local"
          /\ state[0] = "running"
          /\ \E i \in DOMAIN killers[0] : killers[0][i] = "running")
           ~> LocalStopped)

\* the process was killed after it ignored the interrupt, and the launcher
\* has stopped with callbacks registered
C29_Witness ==
    /\ variant = "local"
    /\ process[0] = "killed"
    /\ LocalStopped
    /\ ncb > 0

\* C34: the hard kill that interrupt_then_kill scheduled and that fires
\* when the launcher has already reached 'after' delivers no signal to any
\* process and leaves state and stop_data as they are; it is not cancelled.
C34_LateKillHarmless ==
    /\ [](variant = "local" /\ state[0] = "after" =>
             \A i \in DOMAIN killers[0] :
                 LET w == LocalSignal([World EXCEPT !.killers[0] = Without(@, i)],
                                      0, "SIGKILL")
                 IN  /\ w.process = process
                     /\ w.state = state
                     /\ w.stop_data = stop_data
                     /\ w.err = "none")
    /\ [][(/\ variant = "local"
            /\ state[0] = "after"
            /\ killers[0] # <<>>
            /\ KillerFires(0))
           => /\ process' = process
              /\ state' = state
              /\ stop_data' = stop_data
              /\ cb_log' = cb_log
              /\ Len(killers'[0]) = Len(killers[0]) - 1]_vars

\* the launcher has reached 'after' with stop callbacks called while the
\* hard kill, scheduled when it was running, is still to fire
C34_Witness ==
    /\ variant = "local"
    /\ state[0] = "after"
    /\ \E i \in DOMAIN killers[0] : killers[0][i] = "running"
    /\ stop_data[0].tag = "exit"
    /\ cb_log # <<>>

\* C36: for a LocalProcessLauncher notify_stop is invoked at most once per
\* started process: the poller, the stdout handler and the stderr handler
\* are all taken off the loop by the one that observes the exit, so in
\* 'after' none of them is left to observe it again, and a step of any of
\* them either changes nothing of the stop or is the one step from
\* 'running' to 'after'.
C36_NotifyStopOnce ==
    /\ [](variant = "local" /\ state[0] = "after" =>
             ~poller[0] /\ handlers[0] = {})
    /\ [][(variant = "local" /\ (Poll(0) \/ HandleRead(0)))
           => \/ /\ state' = state
                 /\ stop_data' = stop_data
                 /\ stop_callbacks' = stop_callbacks
                 /\ cb_log' = cb_log
              \/ /\ state[0] = "running"
                 /\ state'[0] = "after"
                 /\ process[0] \notin Alive
                 /\ ~poller'[0]
                 /\ handlers'[0] = {}]_vars

\* the process ended by itself, its exit was observed, and every stop
\* callback registered was called exactly once
C36_Witness ==
    /\ variant = "local"
    /\ state[0] = "after"
    /\ process[0] = "exited"
    /\ killers[0] = <<>>
    /\ ncb = MaxCallbacks
    /\ \A k \in 1 .. ncb : Calls(k) = 1

\* the indices start(n) of a set has registered children under
StartedIndices ==
    IF start_data[0].tag = "list"
    THEN 0 .. (Len(start_data[0].items) - 1)
    ELSE {}

\* C31: in a LocalEngineSetLauncher the key sets of launchers and stop_data
\* are disjoint, their union is the set of started child indices, every
\* child still in launchers has not stopped, and the stop event of a child
\* removes exactly that child from launchers and records the child's stop
\* data under the index the child was started under.
C31_SetBookkeeping ==
    /\ [](variant = "set" =>
             /\ DOMAIN launchers \cap DOMAIN stop_data[0].m = {}
             /\ DOMAIN launchers \cup DOMAIN stop_data[0].m = StartedIndices
             /\ \A idx \in DOMAIN launchers :
                    state[launchers[idx]] = "running")
    /\ [][variant = "set" =>
             \A l \in Children :
                 (state[l] = "running" /\ state'[l] = "after") =>
                     \E idx \in DOMAIN launchers :
                         /\ launchers[idx] = l
                         /\ DOMAIN launchers' = DOMAIN launchers \ {idx}
                         /\ \A j \in DOMAIN launchers' :
                                launchers'[j] = launchers[j]
                         /\ stop_data'[0].m =
                                (idx :> stop_data'[l]) @@ stop_data[0].m]_vars

\* the children SSHEngineSetLauncher.start constructs in one call
NewChildren == (nobj + 1) .. nobj'

\* C27: SSHEngineSetLauncher.start with engines mapping host -> n or
\* host -> (n, args_override) starts exactly sum-of-n child launchers; for
\* every configured host, n of them have the location user@host (host when
\* there is no user) and, with an override, program_args equal to the
\* override; and the i-th of them is registered under host+str(i), where
\* host is the name without 'user@'.
C27_EngineSetStarted ==
    [][(/\ variant = "SSHEngineSetLauncher"
        /\ err' = "none"
        /\ StartSSHSet)
       => /\ Len(spawned') = Len(spawned) + TotalN(engines)
          /\ nobj' = nobj + TotalN(engines)
          /\ \A key \in DOMAIN engines :
                LET mine == {el \in NewChildren : ssh'[el].location = key}
                IN  /\ Cardinality(mine) = engines[key].n
                    /\ \A el \in mine :
                          /\ state'[el] = "running"
                          /\ engines[key].args # {} =>
                                {cargs'[el]} = engines[key].args
                    /\ \A i \in 0 .. (engines[key].n - 1) :
                          LET index == HostOf(key) \o <<ToString(i)>>
                          IN  /\ index \in DOMAIN launchers'
                              /\ launchers'[index] \in mine]_vars

\* C35: after the first SSHEngineSetLauncher.start the launchers mapping
\* holds exactly one entry per started child: the indices host+str(i) are
\* pairwise distinct, so every started child is the value of one index.
C35_OneEntryPerChild ==
    [][(/\ variant = "SSHEngineSetLauncher"
        /\ nobj = 0
        /\ err' = "none"
        /\ StartSSHSet)
       => /\ Cardinality(DOMAIN launchers') = nobj'
          /\ \A el \in NewChildren :
                \E index \in DOMAIN launchers' : launchers'[index] = el]_vars

\* C28: for every launcher class whose start takes a profile_dir (local
\* controller and engine, MPIExec controller and engine set, SSH controller
\* and engine, WinHPC controller and engine set), the arguments of every
\* started child contain 'profile_dir=<path>' exactly once.
C28_ProfileDirOnce ==
    variant \in ProfileClasses =>
        \A i \in DOMAIN spawned :
            Count(spawned[i].args, ProfileArg(ProfileDir)) = 1

(***************************************************************************)
(* Properties of the kernel.                                               *)
(***************************************************************************)
IsReply(m) == m.stream # iopub_stream
Aborted(m) == IsReply(m) /\ m.content.status = "aborted"
\* the messages sent for the k-th request
SentFor(k) == {i \in DOMAIN sent : sent[i].for = k}
InvokedFor(k) == {i \in DOMAIN invoked : invoked[i].k = k}

\* C5: a request a shell stream dispatches while its msg_id is in the
\* AbortSet is answered there with exactly '<type-prefix>_reply' of status
\* 'aborted', no handler is invoked for it, nothing is broadcast on iopub for
\* it, user_ns is as it was, and its id is out of the AbortSet afterwards; a
\* request of a known type whose id is not in the set goes to its handler
\* and gets no 'aborted' reply from the dispatcher.
C5_AbortWins ==
    last_dispatch.k # 0 =>
        LET d == last_dispatch
            msg == arrived[d.k]
        IN IF d.in_set
           THEN /\ Len(sent) = d.nsent + 1
                /\ sent[Len(sent)].stream = d.stream
                /\ sent[Len(sent)].msg_type = <<Head(msg.msg_type), "reply">>
                /\ sent[Len(sent)].content = [status |-> "aborted"]
                /\ sent[Len(sent)].for = d.k
                /\ InvokedFor(d.k) = {}
                /\ \A i \in SentFor(d.k) : IsReply(sent[i])
                /\ user_ns = d.user_ns
                /\ msg.header.msg_id \notin aborted
           ELSE msg.msg_type \in shell_handlers =>
                   /\ \E i \in InvokedFor(d.k) : invoked[i].stream = d.stream
                   /\ \A i \in SentFor(d.k) : ~Aborted(sent[i])

\* an aborted request has been dispatched after another one was executed
C5_Witness ==
    /\ last_dispatch.k # 0
    /\ last_dispatch.in_set
    /\ \E i \in DOMAIN invoked : invoked[i].stream # control_stream

\* C6: when the handler of a request of a shell stream is invoked, no
\* request is waiting on the control stream, and the handlers of the control
\* requests that waited when the dispatch of the shell request began have
\* all been invoked before it.
C6_ControlPriority ==
    /\ \A i \in DOMAIN invoked :
          invoked[i].stream # control_stream => invoked[i].waiting = {}
    /\ last_dispatch.k # 0 =>
          \A c \in last_dispatch.control :
              /\ InvokedFor(c) # {}
              /\ \A i \in InvokedFor(c), j \in InvokedFor(last_dispatch.k) :
                    i < j

\* a shell request went to its handler in a dispatch that found a control
\* request waiting
C6_Witness ==
    /\ last_dispatch.k # 0
    /\ last_dispatch.control # {}
    /\ InvokedFor(last_dispatch.k) # {}

\* C7: every reply the kernel sends for a request (normal, error, 'aborted'
\* from dispatch_queue or from abort_queue) carries the identities the
\* request arrived with.
C7_IdentitiesRoundTrip ==
    \A i \in DOMAIN sent :
        IsReply(sent[i]) =>
            /\ sent[i].for \in DOMAIN arrived
            /\ sent[i].ident = arrived[sent[i].for].idents

\* a normal reply, an error reply and an 'aborted' reply of abort_queue
\* have been sent
C7_Witness ==
    /\ \E i \in DOMAIN sent : IsReply(sent[i]) /\ sent[i].content.status = "ok"
    /\ \E i \in DOMAIN sent :
          IsReply(sent[i]) /\ sent[i].content.status = "error"
    /\ \E i \in DOMAIN sent :
          Aborted(sent[i]) /\ sent[i].for # last_dispatch.k

\* the header of the request a message was sent for
RequestHeader(k) ==
    IF k = 0
    THEN [msg_id |-> msg_id(0), msg_type |-> <<"execute", "request">>]
    ELSE arrived[k].header

\* C8: every reply and every pyin or pyerr broadcast has as parent_header
\* the header of the request it was sent for.
C8_ParentLinkage ==
    \A i \in DOMAIN sent :
        /\ sent[i].for \in 0 .. Len(arrived)
        /\ sent[i].parent_header = RequestHeader(sent[i].for)

\* a pyin, a pyerr, an error reply and an 'aborted' reply have been sent
\* for requests of the clients
C8_Witness ==
    /\ \E i \in DOMAIN sent :
          sent[i].for # 0 /\ sent[i].msg_type = <<"pyin">>
    /\ \E i \in DOMAIN sent :
          sent[i].for # 0 /\ sent[i].msg_type = <<"pyerr">>
    /\ \E i \in DOMAIN sent : Aborted(sent[i])
    /\ \E i \in DOMAIN sent : sent[i].msg_type = <<"clear", "reply">>

\* the names the function of an apply_request assigns in user_ns
Modified(f) == IF f = "f_set" THEN {<<"x">>} ELSE {<<"y">>}

\* the requests that wait on the sockets of the shell streams
PendingKs ==
    UNION {{shell_q[st][i].k : i \in DOMAIN shell_q[st]} :
              st \in Range(shell_streams)}

\* the shell stream on whose socket request p waits
StreamOf(p) ==
    CHOOSE st \in Range(shell_streams) :
        \E i \in DOMAIN shell_q[st] : shell_q[st][i].k = p

IsAbort(m) == m.msg_type = <<"abort", "request">>
\* an abort_request whose msg_ids is missing or empty
NoIds(m) ==
    IsAbort(m) /\ ("msg_ids" \notin DOMAIN m.content \/ m.content.msg_ids = <<>>)

\* C15: every abort_request whose handler was invoked on the control stream
\* has exactly one message sent for it: an abort_reply of status 'ok' on the
\* control stream, sent after every 'aborted' reply of the drain it caused.
C15_AbortReplied ==
    \A i \in DOMAIN invoked :
        LET k == invoked[i].k
        IN (invoked[i].stream = control_stream /\ IsAbort(arrived[k])) =>
              \E j \in DOMAIN sent :
                  /\ SentFor(k) = {j}
                  /\ sent[j].stream = control_stream
                  /\ sent[j].msg_type = <<"abort", "reply">>
                  /\ sent[j].content = [status |-> "ok"]
                  /\ \A d \in DOMAIN sent : sent[d].by = k => d < j

\* C16: in the step that invokes the handler of an abort_request without
\* msg_ids on the control stream, every request that waited on a shell
\* stream when the step began (its handler not yet started) gets
\* '<type-prefix>_reply' of status 'aborted' on its stream and no handler
\* call; and no request that has an 'aborted' reply ever has a handler call.
C16_DrainOnAbort ==
    /\ [][\A i \in (Len(invoked) + 1) .. Len(invoked') :
             (/\ invoked'[i].stream = control_stream
              /\ NoIds(arrived[invoked'[i].k])) =>
                 \A p \in PendingKs :
                     /\ \E j \in DOMAIN sent' :
                           /\ sent'[j].for = p
                           /\ Aborted(sent'[j])
                           /\ sent'[j].stream = StreamOf(p)
                           /\ sent'[j].msg_type = ReplyType(arrived[p].msg_type)
                     /\ \A x \in DOMAIN invoked' : invoked'[x].k # p]_vars
    /\ [](\A j \in DOMAIN sent :
             Aborted(sent[j]) => InvokedFor(sent[j].for) = {})

IsErrorReply(m) ==
    /\ IsReply(m)
    /\ m.msg_type = <<"execute", "reply">>
    /\ m.content.status = "error"

IsPyerr(m) == m.stream = iopub_stream /\ m.msg_type = <<"pyerr">>
IsPyin(m) == m.stream = iopub_stream /\ m.msg_type = <<"pyin">>

\* C18: of the messages sent for an execute_request whose handler ran, one
\* is a pyin on iopub and one is the execute_reply on the stream of the
\* request; the pyin comes first, the reply last, and a pyerr on iopub lies
\* between them exactly when the reply has status 'error'.  Of the messages
\* sent for an apply_request whose handler ran, the apply_reply is the last
\* and a pyerr on iopub precedes it exactly when it has status 'error'.
C18_BroadcastBeforeReply ==
    \A x \in DOMAIN invoked :
        LET k == invoked[x].k
            S == SentFor(k)
            t == arrived[k].msg_type
        IN /\ t = <<"execute", "request">> =>
                \E a, c \in S :
                    /\ IsPyin(sent[a])
                    /\ sent[c].msg_type = <<"execute", "reply">>
                    /\ sent[c].stream = invoked[x].stream
                    /\ a < c
                    /\ \A b \in S \ {a, c} : IsPyerr(sent[b]) /\ a < b /\ b < c
                    /\ (sent[c].content.status = "error") <=> (S \ {a, c} # {})
           /\ t = <<"apply", "request">> =>
                \E c \in S :
                    /\ sent[c].msg_type = <<"apply", "reply">>
                    /\ sent[c].stream = invoked[x].stream
                    /\ \A b \in S \ {c} : IsPyerr(sent[b]) /\ b < c
                    /\ (sent[c].content.status = "error") <=> (S \ {c} # {})

\* an execute_request and an apply_request have raised
C18_Witness ==
    /\ \E i \in DOMAIN sent :
          IsPyerr(sent[i]) /\ sent[i].content.method = "execute"
    /\ \E i \in DOMAIN sent :
          IsPyerr(sent[i]) /\ sent[i].content.method = "apply"
    /\ \E i \in DOMAIN sent :
          sent[i].msg_type = <<"execute", "reply">> /\ sent[i].content.status = "ok"

\* the requests that wait on the socket of the control stream
WaitingKs == {control_q[i].k : i \in DOMAIN control_q}

\* a request of a type the control table does not hold has left the socket
\* of the control stream
UnknownOnControl(k) ==
    /\ arrived[k].on = control_stream
    /\ arrived[k].msg_type \notin control_handlers
    /\ k \notin WaitingKs

\* C19 as stated: a request of a type the shell table does not hold that a
\* shell stream has dispatched, and one of a type the control table does
\* not hold that the control stream has dispatched, has no message sent for
\* it and no handler call, and user_ns is as it was before it.
C19_UnknownDiscarded ==
    /\ [](/\ (/\ last_dispatch.k # 0
               /\ arrived[last_dispatch.k].msg_type \notin shell_handlers) =>
                  /\ SentFor(last_dispatch.k) = {}
                  /\ InvokedFor(last_dispatch.k) = {}
                  /\ user_ns = last_dispatch.user_ns
           /\ \A k \in DOMAIN arrived :
                 UnknownOnControl(k) => SentFor(k) = {} /\ InvokedFor(k) = {})
    /\ [][(DispatchControl /\ Head(control_q).msg_type \notin control_handlers)
             => UNCHANGED <<sent, invoked, user_ns, aborted, shell_q>>]_vars

\* C19: the same for a request whose msg_id is not in the AbortSet when
\* its shell stream dispatches it (one whose id is in the set is answered
\* 'aborted' before the table is looked at, whatever its type).
C19_UnknownDiscardedUnlessAborted ==
    /\ [](/\ (/\ last_dispatch.k # 0
               /\ arrived[last_dispatch.k].msg_type \notin shell_handlers
               /\ ~last_dispatch.in_set) =>
                  /\ SentFor(last_dispatch.k) = {}
                  /\ InvokedFor(last_dispatch.k) = {}
                  /\ user_ns = last_dispatch.user_ns
           /\ \A k \in DOMAIN arrived :
                 UnknownOnControl(k) => SentFor(k) = {} /\ InvokedFor(k) = {})
    /\ [][(DispatchControl /\ Head(control_q).msg_type \notin control_handlers)
             => UNCHANGED <<sent, invoked, user_ns, aborted, shell_q>>]_vars

\* a shell stream has dispatched a request of a type only the control table
\* holds, its id not in the AbortSet, after the control stream dispatched a
\* request of a type no table holds and after the kernel sent replies
C19_Witness ==
    /\ last_dispatch.k # 0
    /\ arrived[last_dispatch.k].msg_type \in control_handlers \ shell_handlers
    /\ ~last_dispatch.in_set
    /\ \E k \in DOMAIN arrived : UnknownOnControl(k)
    /\ sent # <<>>

\* an abort_request whose handler ran names the id of request k
Named(k) ==
    \E i \in DOMAIN invoked :
        LET m == arrived[invoked[i].k]
        IN /\ IsAbort(m)
           /\ "msg_ids" \in DOMAIN m.content
           /\ msg_id(k) \in Range(m.content.msg_ids)

\* C20: a request that came on the control stream never has an 'aborted'
\* reply; once the control stream has dispatched it, its handler has been
\* invoked if the control table holds its type, whether or not its id was
\* in the AbortSet; and an id of a control request that an abort_request
\* has put into the AbortSet stays there.
C20_ControlBypassesAbort ==
    \A k \in DOMAIN arrived :
        arrived[k].on = control_stream =>
            /\ \A i \in SentFor(k) : ~Aborted(sent[i])
            /\ (k \notin WaitingKs /\ arrived[k].msg_type \in control_handlers)
                  => InvokedFor(k) # {}
            /\ Named(k) => msg_id(k) \in aborted

\* the handler of a control request has been invoked after the handler of
\* an abort_request that names its id
C20_Witness ==
    \E k \in DOMAIN arrived :
        /\ arrived[k].on = control_stream
        /\ \E i, j \in DOMAIN invoked :
              /\ i < j
              /\ invoked[j].k = k
              /\ IsAbort(arrived[invoked[i].k])
              /\ "msg_ids" \in DOMAIN arrived[invoked[i].k].content
              /\ msg_id(k) \in Range(arrived[invoked[i].k].content.msg_ids)

\* C9: after an apply_request, whether its function returned or raised, the
\* four synthetic names of the request are not in user_ns and every other
\* name the function did not assign is bound as before; no state of the
\* kernel holds a synthetic name of any request.
C9_NamespaceCleanup ==
    /\ \A i \in DOMAIN apply_log :
          LET e == apply_log[i]
          IN /\ Range(SyntheticNames(msg_id(e.k))) \cap DOMAIN e.after = {}
             /\ \A n \in (DOMAIN e.before \cup DOMAIN e.after)
                            \ Modified(e.f[1]) :
                   /\ n \in DOMAIN e.before
                   /\ n \in DOMAIN e.after
                   /\ e.after[n] = e.before[n]
    /\ \A k \in 1 .. MaxMsgs :
          Range(SyntheticNames(msg_id(k))) \cap DOMAIN user_ns = {}

\* a function that returned and one that raised have been applied to a
\* namespace that held bindings
C9_Witness ==
    /\ \E i \in DOMAIN apply_log :
          apply_log[i].f[1] = "f_set" /\ apply_log[i].before # EmptyNs
    /\ \E i \in DOMAIN apply_log :
          apply_log[i].f[1] = "f_raise" /\ apply_log[i].before # EmptyNs

IsClear(m) == m.msg_type = <<"clear", "request">>

\* the namespace the lines leave when they run one after the other on ns
RECURSIVE RunLines(_, _)
RunLines(lines, ns) ==
    IF lines = <<>>
    THEN ns
    ELSE RunLines(Tail(lines), exec(Head(lines), ns).ns)

\* C21: once a shell stream has dispatched a clear_request to its handler,
\* exactly one message has been sent for it, a clear_reply of status 'ok' on
\* its stream, and user_ns holds the bindings the configured exec_lines make
\* on an empty namespace and no others.
C21_ClearResets ==
    (/\ last_dispatch.k # 0
     /\ IsClear(arrived[last_dispatch.k])
     /\ ~last_dispatch.in_set) =>
        /\ user_ns = RunLines(exec_lines, EmptyNs)
        /\ \E j \in DOMAIN sent :
              /\ SentFor(last_dispatch.k) = {j}
              /\ sent[j].stream = last_dispatch.stream
              /\ sent[j].msg_type = <<"clear", "reply">>
              /\ sent[j].content = [status |-> "ok"]

\* a clear_request has been handled in a namespace that held a binding of
\* an earlier request
C21_Witness ==
    /\ last_dispatch.k # 0
    /\ IsClear(arrived[last_dispatch.k])
    /\ InvokedFor(last_dispatch.k) # {}
    /\ <<"x">> \in DOMAIN last_dispatch.user_ns
    /\ <<"x">> \notin DOMAIN user_ns

IsShutdown(m) == m.msg_type = <<"shutdown", "request">>

\* the handler of a shutdown_request has been invoked
ShutdownHandled ==
    \E i \in DOMAIN invoked : IsShutdown(arrived[invoked[i].k])

\* C22: the step that invokes the handler of a shutdown_request sends
\* exactly one message for it, a shutdown_reply on its stream, after every
\* 'aborted' reply of its drain; the reply has status 'error' and method
\* 'shutdown' if the drain failed, and else echoes the content of the
\* request with status 'ok', every request that waited on a shell socket
\* being answered 'aborted' before it and no shell socket holding a
\* request afterwards.  The exit is scheduled in such a step only, the
\* kernel does not exit unless a shutdown_reply was sent, and once the
\* handler was invoked the kernel exits.
C22_ShutdownOrder ==
    /\ [][\A i \in (Len(invoked) + 1) .. Len(invoked') :
             LET k == invoked'[i].k
                 c == arrived[k].content
             IN IsShutdown(arrived[k]) =>
                   /\ exit_pending'
                   /\ \E j \in (Len(sent) + 1) .. Len(sent') :
                         /\ {x \in DOMAIN sent' : sent'[x].for = k} = {j}
                         /\ sent'[j].stream = invoked'[i].stream
                         /\ sent'[j].msg_type = <<"shutdown", "reply">>
                         /\ \A d \in DOMAIN sent' : sent'[d].by = k => d < j
                         /\ \/ /\ sent'[j].content.status = "error"
                               /\ sent'[j].content.method = "shutdown"
                            \/ /\ sent'[j].content.status = "ok"
                               /\ DOMAIN sent'[j].content =
                                     DOMAIN c \cup {"status"}
                               /\ \A f \in DOMAIN c :
                                     sent'[j].content[f] = c[f]
                               /\ \A st \in Range(shell_streams) :
                                     shell_q'[st] = <<>>
                               /\ \A p \in PendingKs \ {last_dispatch'.k} :
                                     \E x \in 1 .. (j - 1) :
                                         /\ sent'[x].for = p
                                         /\ Aborted(sent'[x])]_vars
    /\ [][(exit_pending' /\ ~exit_pending) =>
             \E j \in (Len(sent) + 1) .. Len(sent') :
                 sent'[j].msg_type = <<"shutdown", "reply">>]_vars
    /\ [](exited => \E j \in DOMAIN sent :
                        sent[j].msg_type = <<"shutdown", "reply">>)
    /\ (ShutdownHandled ~> exited)

\* the kernel has exited after a shutdown_reply of status 'ok' that follows
\* an 'aborted' reply of its drain, and after one of status 'error'
C22_Witness ==
    /\ exited
    /\ \E j \in DOMAIN sent :
          /\ sent[j].msg_type = <<"shutdown", "reply">>
          /\ sent[j].content.status = "ok"
          /\ \E d \in 1 .. (j - 1) : sent[d].by = sent[j].for
    /\ \E j \in DOMAIN sent :
          /\ sent[j].msg_type = <<"shutdown", "reply">>
          /\ sent[j].content.status = "error"

IsExecute(m) == m.msg_type = <<"execute", "request">>
IsApply(m) == m.msg_type = <<"apply", "request">>

\* the exception the user's code of request m raises ("": none)
Raised(m) ==
    IF IsExecute(m)
    THEN exec(m.content.code, EmptyNs).ename
    ELSE IF IsApply(m)
         THEN call(m.buffers[1], EmptyNs, <<"r">>).ename
         ELSE ""

\* C23: a step in which only handlers of execute_request and apply_request
\* ran lets no exception out; a request of these types whose code raises
\* and whose handler ran has a pyerr on iopub and a reply of its type on
\* its stream, both with the content of the exception and status 'error';
\* and a request of a known type that a shell stream dispatches after an
\* error reply, its id not in the AbortSet, goes to its handler.
C23_ErrorsContained ==
    /\ [][(/\ Len(invoked') > Len(invoked)
            /\ \A i \in (Len(invoked) + 1) .. Len(invoked') :
                  \/ IsExecute(arrived[invoked'[i].k])
                  \/ IsApply(arrived[invoked'[i].k]))
              => kerr' = "none"]_vars
    /\ [](\A x \in DOMAIN invoked :
             LET k == invoked[x].k
                 m == arrived[k]
                 exc == wrap_exception(Head(m.msg_type), Raised(m))
             IN Raised(m) # "" =>
                   \E b, c \in SentFor(k) :
                       /\ IsPyerr(sent[b])
                       /\ sent[b].content = exc
                       /\ sent[c].stream = invoked[x].stream
                       /\ sent[c].msg_type = ReplyType(m.msg_type)
                       /\ sent[c].content = exc
                       /\ sent[c].content.status = "error")
    /\ []((/\ last_dispatch.k # 0
            /\ arrived[last_dispatch.k].msg_type \in shell_handlers
            /\ ~last_dispatch.in_set
            /\ \E i \in 1 .. last_dispatch.nsent :
                  IsReply(sent[i]) /\ sent[i].content.status = "error")
             => InvokedFor(last_dispatch.k) # {})

\* an execute_request and an apply_request have raised on a shell stream,
\* and the handler of a request dispatched after their error replies ran
C23_Witness ==
    /\ last_dispatch.k # 0
    /\ InvokedFor(last_dispatch.k) # {}
    /\ \E i, j \in 1 .. last_dispatch.nsent :
          /\ sent[i].msg_type = <<"execute", "reply">>
          /\ sent[j].msg_type = <<"apply", "reply">>
          /\ sent[i].stream # control_stream
          /\ sent[i].content.status = "error"
          /\ sent[j].content.status = "error"

\* C24: of two requests of a known type that came on the same shell stream,
\* the later one has no reply (of its handler or 'aborted') before the
\* earlier one has a reply, and its handler is not invoked while the
\* earlier one waits nor before the handler of the earlier one.
C24_StreamOrder ==
    \A k1, k2 \in DOMAIN arrived :
        (/\ k1 < k2
         /\ arrived[k1].on = arrived[k2].on
         /\ arrived[k1].on # control_stream
         /\ arrived[k1].msg_type \in shell_handlers) =>
            /\ \A j \in SentFor(k2) :
                  IsReply(sent[j]) =>
                     \E i \in SentFor(k1) : IsReply(sent[i]) /\ i < j
            /\ \A y \in InvokedFor(k2) :
                  /\ k1 \notin PendingKs
                  /\ \A x \in InvokedFor(k1) : x < y

\* the buffers of the reply to an apply_request m whose function returns
Returned(m) ==
    LET r == call(m.buffers[1], EmptyNs, <<"r">>).ns[<<"r">>]
        ser == serialize_object(r)
    IN <<ser.packed>> \o ser.buf

\* C30: the apply_reply the handler of an apply_request sends has content
\* {status: 'ok'} and the serialized result as buffers if the function
\* returned, and the content of the exception with status 'error' and no
\* buffers if it raised; the status of its subheader is the status of its
\* content, and dependencies_met is false in its subheader exactly when the
\* exception is UnmetDependency.
C30_ApplyReply ==
    \A x \in DOMAIN invoked :
        LET k == invoked[x].k
            m == arrived[k]
        IN IsApply(m) =>
              \A c \in SentFor(k) :
                  IsReply(sent[c]) =>
                     /\ sent[c].msg_type = <<"apply", "reply">>
                     /\ IF Raised(m) = ""
                        THEN /\ sent[c].content = [status |-> "ok"]
                             /\ sent[c].buffers = Returned(m)
                        ELSE /\ sent[c].content =
                                   wrap_exception("apply", Raised(m))
                             /\ sent[c].content.status = "error"
                             /\ sent[c].buffers = <<>>
                     /\ sent[c].subheader.status = sent[c].content.status
                     /\ (~sent[c].subheader.dependencies_met)
                           <=> (Raised(m) = "UnmetDependency")

\* a function has returned, one has raised UnmetDependency and one has
\* raised another exception
C30_Witness ==
    /\ \E c \in DOMAIN sent :
          /\ sent[c].msg_type = <<"apply", "reply">>
          /\ sent[c].content.status = "ok"
          /\ sent[c].buffers # <<>>
    /\ \E c \in DOMAIN sent :
          /\ sent[c].msg_type = <<"apply", "reply">>
          /\ sent[c].content.status = "error"
          /\ sent[c].content.ename = "UnmetDependency"
    /\ \E c \in DOMAIN sent :
          /\ sent[c].msg_type = <<"apply", "reply">>
          /\ sent[c].content.status = "error"
          /\ sent[c].content.ename = "ValueError"

\* the replies sent so far to the request with the id mid
RepliesTo(mid) ==
    {i \in DOMAIN sent : IsReply(sent[i]) /\ sent[i].parent_header.msg_id = mid}

\* C38: every id in the AbortSet belongs to a request that has not been
\* answered, and an id leaves the set only in the step that dispatches the
\* request carrying it on a shell stream.
C38_AbortSetPending ==
    /\ [](\A mid \in aborted : RepliesTo(mid) = {})
    /\ [][\A mid \in aborted \ aborted' :
             \E stream \in Range(shell_streams) :
                 /\ shell_q[stream] # <<>>
                 /\ Head(shell_q[stream]).header.msg_id = mid
                 /\ DispatchQueue(stream)]_vars

\* sent[j] shows that the handler of an execute_request or an apply_request
\* has run the user's code: the pyin broadcast, or a reply that is not
\* 'aborted'
ShowsExecution(j) ==
    \/ sent[j].msg_type = <<"pyin">>
    \/ /\ sent[j].msg_type \in {<<"execute", "reply">>, <<"apply", "reply">>}
       /\ sent[j].content.status # "aborted"

\* C39: once the shutdown_reply of a shutdown_request has been sent, the
\* kernel runs no execute_request and no apply_request any more.
C39_NoExecutionAfterShutdown ==
    \A i, j \in DOMAIN sent :
        (i < j /\ sent[i].msg_type = <<"shutdown", "reply">>)
            => ~ShowsExecution(j)

\* the replies sent for the k-th request
ReplySet(k) == {i \in SentFor(k) : IsReply(sent[i])}

\* the k-th request has left the socket of its stream
Consumed(k) ==
    \A i \in DOMAIN shell_q[arrived[k].on] : shell_q[arrived[k].on][i].k # k

C33_PrefixFollowsId ==
    /\ [](prefix = set_prefix(int_id))
    /\ [][\A j \in (Len(sent) + 1) .. Len(sent') :
             sent'[j].stream = iopub_stream =>
                 sent'[j].ident = set_prefix(int_id) \o sent'[j].msg_type]_vars

\* C40: running the configured exec_lines sends no reply on a shell or the
\* control stream and answers no waiting shell request 'aborted', also when
\* an exec line raises.  The clients of this kernel send clear_requests,
\* execute_requests whose code succeeds and complete_requests only, so no
\* handler of theirs drains the queues: no message sent for an exec line is
\* a reply, no reply has the status 'aborted', and every request that has
\* left a shell stream was given to its handler.
C40_ExecLinesSilent ==
    /\ \A j \in DOMAIN sent :
          /\ sent[j].for = 0 => ~IsReply(sent[j])
          /\ ~Aborted(sent[j])
    /\ \A k \in DOMAIN arrived :
          (arrived[k].on \in Range(shell_streams) /\ Consumed(k))
          => InvokedFor(k) # {}

(***************************************************************************)
(* Properties of the batch scripts.                                        *)
(***************************************************************************)
Written(c) == "script" \in DOMAIN c

\* C10: two calls of write_batch_script in a row with the same n, queue and
\* context write the same script; a template line is not inserted in a
\* call whose template its regexp matches, and none is inserted twice.
C10_InjectionIdempotent ==
    /\ (/\ Len(writes) = 2
        /\ Written(writes[1])
        /\ Written(writes[2])
        /\ writes[1].n = writes[2].n
        /\ writes[1].queue = writes[2].queue
        /\ writes[1].context = writes[2].context)
       => writes[1].script = writes[2].script
    /\ \A i \in DOMAIN writes : \A d \in 1 .. 2 :
          ~(writes[i].added[d] /\ writes[i].matched[d])
    /\ ninject[1] <= 1
    /\ ninject[2] <= 1

\* the template write_batch_script resolves: batch_template, else the
\* content of batch_template_file, else default_template
ResolvedTemplate ==
    IF batch_template # <<>> THEN batch_template
    ELSE IF batch_template_file # "" THEN FileContent(batch_template_file)
    ELSE default_template(flavor)

\* the lines of a string: the text before the first line break, and after
FirstLine(s) ==
    IF HasNewline(s) THEN SubSeq(s, 1, FirstNewline(s) - 1) ELSE s
AfterFirstLine(s) ==
    IF HasNewline(s) THEN SubSeq(s, FirstNewline(s) + 1, Len(s)) ELSE <<>>

\* the number of places where pat occurs in s
Occurrences(s, pat) ==
    Cardinality({i \in 1 .. (Len(s) - Len(pat) + 1) :
                    SubSeq(s, i, i + Len(pat) - 1) = pat})

\* C32: when the resolved template matches neither job_array_regexp nor
\* queue_regexp, start(n, profile_dir) writes a script that is the
\* template's first line, then the rendered queue_template if queue is
\* non-empty, then the rendered job_array_template, each once, then the
\* rest of the template with {n}, {queue}, {profile_dir} substituted.
C32_InjectionLayout ==
    (/\ variant = "batch"
     /\ ~job_array_search(flavor, ResolvedTemplate)
     /\ ~queue_search(flavor, ResolvedTemplate))
    => \A n \in 1 .. MaxN :
          LET ctx == SetKey(SetKey(SetKey(context, "profile_dir", ProfileDir),
                                   "n", <<ToString(n)>>),
                            "queue", QueueValue(queue))
              w == write_batch_script(
                       [World EXCEPT !.context =
                           SetKey(@, "profile_dir", ProfileDir)], n)
              qline == format(queue_template(flavor), ctx)
              jline == format(job_array_template(flavor), ctx)
          IN  /\ w.err = "none"
              /\ w.batch_file =
                    FirstLine(ResolvedTemplate) \o <<"\n">>
                    \o (IF queue # "" THEN qline \o <<"\n">> ELSE <<>>)
                    \o jline \o <<"\n">>
                    \o format(AfterFirstLine(ResolvedTemplate), ctx)
              /\ Occurrences(w.batch_file, jline) = 1
              /\ Occurrences(w.batch_file, qline) =
                    (IF queue # "" THEN 1 ELSE 0)

====
